---- MODULE Spec2Model ----
(***************************************************************************)
(* The single-pass M3U8 parser of src/m3u8/cparser/m3u8_parser.h as a      *)
(* state machine.  One step of the machine is one iteration of the main    *)
(* line loop of m3u8_parse on a non-blank line: the line is dispatched to  *)
(* its tag handler, or, for a URI line, to finalize_segment or             *)
(* finalize_playlist.  The last step is the code after the loop.           *)
(*                                                                         *)
(* A C string is a TLA+ string and the null pointer is NULL.  A linked     *)
(* list is the sequence of its nodes, head first; the empty list is the    *)
(* null pointer.  A list node carries its address in the field h: the      *)
(* number of the input line that allocated it (a line allocates at most    *)
(* one node of a type); 0 is the null pointer.  Allocation is assumed to   *)
(* succeed.                                                                *)
(*                                                                         *)
(* The input is chosen line by line; `input` is the sequence of the lines  *)
(* consumed so far, each with the attribute list parse_attributes yields   *)
(* for its body, and, for a URI line, the branch the loop took on it.      *)
(*                                                                         *)
(* The specifications of the second half of the module (SpecTags and the   *)
(* ones after it) choose the bytes of the input instead: `content` is the  *)
(* memory m3u8_parse is called on, `cursor` is the offset of its cursor,   *)
(* and a step is one iteration of the line loop on the bytes under the     *)
(* cursor.  `lex` is one call of parse_attributes, one step per iteration  *)
(* of its loop.                                                            *)
(***************************************************************************)
EXTENDS Naturals, Sequences, FiniteSets, TLC

VARIABLES
    input,   \* the non-blank lines consumed so far (the text before the cursor)
    data,    \* M3U8Data *data, the document being built
    state,   \* ParserState state
    pc,      \* "scan": inside the line loop;  "done": m3u8_parse has returned;
             \* "freed": m3u8_free has returned
    content, \* const char *content and size_t length, with the memory behind
    cursor,  \* const char *cursor, as an offset from content
    lex,     \* parse_attributes: its arguments, p and the list built so far
    heap     \* the allocator: what is allocated, what was freed, what points where

vars == <<input, data, state, pc, content, cursor, lex, heap>>

\* The null char*; no C string of the model contains '<'.
NULL == "<NULL>"

(***************************************************************************)
(* Strings and attribute lists                                             *)
(***************************************************************************)

\* The decimal digits, for atoi / strtoll / strtod.
Digits == <<"0", "1", "2", "3", "4", "5", "6", "7", "8", "9">>

IsDigit(c) == \E d \in 1..Len(Digits) : Digits[d] = c

DigitVal(c) == (CHOOSE d \in 1..Len(Digits) : Digits[d] = c) - 1

\* The value of the leading run of digits of s, continuing from acc.
RECURSIVE LeadingNumber(_, _)
LeadingNumber(s, acc) ==
    IF Len(s) = 0 \/ ~IsDigit(Head(s)) THEN acc
    ELSE LeadingNumber(Tail(s), 10 * acc + DigitVal(Head(s)))

\* isspace: what atoi, strtoll and strtod skip before the number
IsSpace(c) == c \in {" ", "\t", "\n", "\r"}

RECURSIVE SkipSpace(_)
SkipSpace(s) ==
    IF Len(s) > 0 /\ IsSpace(SubSeq(s, 1, 1)) THEN SkipSpace(SubSeq(s, 2, Len(s)))
    ELSE s

\* atoi, strtoll(.., 10) and the integer part of strtod on an unsigned
\* decimal: the white space is skipped, then the leading digits are read;
\* 0 when there are none.
atoi(s) == LeadingNumber(SkipSpace(s), 0)

\* remove the surrounding pair of quotes, as get_attr_str_unquoted does
unquote(v) ==
    IF Len(v) >= 2 /\ \/ (SubSeq(v, 1, 1) = "\"" /\ SubSeq(v, Len(v), Len(v)) = "\"")
                      \/ (SubSeq(v, 1, 1) = "'" /\ SubSeq(v, Len(v), Len(v)) = "'")
    THEN SubSeq(v, 2, Len(v) - 1)
    ELSE v

\* An attribute list is the sequence of its [key, value] nodes.
get_attr(attrs, key) ==
    IF \E i \in 1..Len(attrs) : attrs[i].key = key
    THEN attrs[CHOOSE i \in 1..Len(attrs) :
                   /\ attrs[i].key = key
                   /\ \A j \in 1..(i - 1) : attrs[j].key # key].value
    ELSE NULL

\* a raw accessor that strips the quotes as well
get_attr_str_strips_quotes(attrs, key) ==
    LET v == get_attr(attrs, key) IN IF v = NULL THEN NULL ELSE unquote(v)

get_attr_str(attrs, key) == get_attr(attrs, key)

get_attr_str_unquoted(attrs, key) ==
    LET v == get_attr(attrs, key) IN IF v = NULL THEN NULL ELSE unquote(v)

get_attr_int(attrs, key, def) ==
    LET v == get_attr(attrs, key) IN IF v = NULL THEN def ELSE atoi(v)

get_attr_ll(attrs, key, def) == get_attr_int(attrs, key, def)

get_attr_double(attrs, key, def) == get_attr_int(attrs, key, def)

(***************************************************************************)
(* The zeroed structures (calloc, ParserState state = {0})                 *)
(***************************************************************************)

ZeroSegment(ln) ==
    [h |-> ln, duration |-> 0, title |-> NULL, uri |-> NULL, byterange |-> NULL,
     bitrate |-> 0, discontinuity |-> FALSE, program_date_time |-> NULL,
     cue_in |-> FALSE, cue_out |-> FALSE, cue_out_start |-> FALSE,
     cue_out_explicitly_duration |-> FALSE,
     scte35 |-> NULL, oatcls_scte35 |-> NULL,
     scte35_duration |-> NULL, scte35_elapsedtime |-> NULL,
     asset_metadata |-> <<>>, key |-> 0, init_section |-> 0,
     dateranges |-> <<>>, gap_tag |-> FALSE, blackout |-> NULL,
     parts |-> <<>>]

\* current_segment is the sequence of at most one segment: <<>> is null.
ZeroState ==
    [expect_segment |-> FALSE, expect_playlist |-> FALSE,
     current_segment |-> <<>>, current_key |-> 0, current_map |-> 0,
     cue_out |-> FALSE, cue_out_start |-> FALSE,
     cue_out_explicitly_duration |-> FALSE, cue_in |-> FALSE,
     discontinuity |-> FALSE, gap |-> FALSE, blackout |-> NULL,
     current_cue_out_scte35 |-> NULL, current_cue_out_oatcls_scte35 |-> NULL,
     current_cue_out_duration |-> NULL, current_cue_out_elapsedtime |-> NULL,
     asset_metadata |-> <<>>, program_date_time |-> NULL,
     dateranges |-> <<>>, stream_info |-> <<>>]

ZeroData ==
    [targetduration |-> 0, media_sequence |-> 0, discontinuity_sequence |-> 0,
     version |-> 0, allow_cache |-> NULL, playlist_type |-> NULL,
     program_date_time |-> NULL, is_variant |-> FALSE,
     is_endlist |-> FALSE, is_i_frames_only |-> FALSE,
     is_independent_segments |-> FALSE, is_images_only |-> FALSE,
     has_media_sequence |-> FALSE,
     has_part_inf |-> FALSE, part_inf_part_target |-> 0,
     segments |-> <<>>, playlists |-> <<>>, iframe_playlists |-> <<>>,
     image_playlists |-> <<>>, media |-> <<>>, keys |-> <<>>,
     session_keys |-> <<>>, segment_map |-> <<>>,
     rendition_reports |-> <<>>, session_data |-> <<>>, tiles |-> <<>>]

\* What a handler leaves behind: the document and the parser state.
Out(d, s) == [data |-> d, state |-> s]

\* "Ensure current segment exists"
EnsureSegment(s, ln) ==
    IF s.current_segment = <<>>
    THEN [s EXCEPT !.current_segment = <<ZeroSegment(ln)>>]
    ELSE s

\* a list that grows at its head
ListPrepend(list, node) == <<node>> \o list

\* tail->next = node; tail = node (or head = tail = node)
ListAppend(list, node) == Append(list, node)

(***************************************************************************)
(* Tag handlers.  Each takes the document, the parser state, what the      *)
(* handler extracts from the line, and (where it allocates a node) the     *)
(* number ln of the line.                                                  *)
(***************************************************************************)

\* every line replaces the document-level value as well
handle_program_date_time_last_wins(d, s, val) ==
    Out([d EXCEPT !.program_date_time = val],
        [s EXCEPT !.program_date_time = val])

handle_program_date_time(d, s, val) ==
    Out(IF d.program_date_time = NULL
        THEN [d EXCEPT !.program_date_time = val] ELSE d,
        [s EXCEPT !.program_date_time = val])

handle_discontinuity(d, s) == Out(d, [s EXCEPT !.discontinuity = TRUE])

\* a handler that raises the wrong flag
handle_gap_sets_discontinuity(d, s) == Out(d, [s EXCEPT !.discontinuity = TRUE])

handle_gap(d, s) == Out(d, [s EXCEPT !.gap = TRUE])

handle_cue_in(d, s) == Out(d, [s EXCEPT !.cue_in = TRUE])

\* a handler that opens a span the way CUE-OUT does
handle_cue_span_starts(d, s) ==
    Out(d, [s EXCEPT !.cue_out = TRUE, !.cue_out_start = TRUE])

handle_cue_span(d, s) == Out(d, [s EXCEPT !.cue_out = TRUE])

\* params is the text after the ':' or NULL when the line has no ':'
handle_blackout(d, s, params) ==
    Out(d, [s EXCEPT !.blackout =
                IF params # NULL THEN params ELSE "__BLACKOUT_TRUE__"])

NewKey(attrs, ln) ==
    [h |-> ln,
     method |-> get_attr_str_unquoted(attrs, "method"),
     uri |-> get_attr_str_unquoted(attrs, "uri"),
     iv |-> get_attr_str_unquoted(attrs, "iv"),
     keyformat |-> get_attr_str_unquoted(attrs, "keyformat"),
     keyformatversions |-> get_attr_str_unquoted(attrs, "keyformatversions")]

\* a handler that lists the key and forgets to make it the current one
handle_key_not_current(d, s, attrs, ln) ==
    Out([d EXCEPT !.keys = ListAppend(@, NewKey(attrs, ln))], s)

handle_key(d, s, attrs, ln) ==
    LET key == NewKey(attrs, ln) IN
    Out([d EXCEPT !.keys = ListAppend(@, key)],
        [s EXCEPT !.current_key = key.h])

\* a handler that treats a session key like a key
handle_session_key_current(d, s, attrs, ln) ==
    Out([d EXCEPT !.session_keys = ListAppend(@, NewKey(attrs, ln))],
        [s EXCEPT !.current_key = ln])

handle_session_key(d, s, attrs, ln) ==
    LET key == NewKey(attrs, ln) IN
    Out([d EXCEPT !.session_keys = ListAppend(@, key)], s)

handle_map(d, s, attrs, ln) ==
    LET map == [h |-> ln,
                uri |-> get_attr_str_unquoted(attrs, "uri"),
                byterange |-> get_attr_str_unquoted(attrs, "byterange")] IN
    Out([d EXCEPT !.segment_map = ListAppend(@, map)],
        [s EXCEPT !.current_map = map.h])

\* body: the duration text and the title text after the first comma
\* (leading blanks removed), NULL without a comma
handle_extinf(d, s, body, ln) ==
    LET s1 == EnsureSegment(s, ln)
        seg == s1.current_segment[1]
        seg1 == [seg EXCEPT !.duration = atoi(body.duration)]
        seg2 == IF body.title # NULL /\ Len(body.title) > 0
                THEN [seg1 EXCEPT !.title = body.title] ELSE seg1
    IN Out(d, [s1 EXCEPT !.current_segment = <<seg2>>,
                         !.expect_segment = TRUE])

handle_byterange(d, s, val, ln) ==
    LET s1 == EnsureSegment(s, ln) IN
    Out(d, [s1 EXCEPT !.current_segment[1].byterange = val,
                      !.expect_segment = TRUE])

\* a handler that announces a segment the way EXTINF and BYTERANGE do
handle_bitrate_expects(d, s, val, ln) ==
    LET s1 == EnsureSegment(s, ln) IN
    Out(d, [s1 EXCEPT !.current_segment[1].bitrate = atoi(val),
                      !.expect_segment = TRUE])

handle_bitrate(d, s, val, ln) ==
    LET s1 == EnsureSegment(s, ln) IN
    Out(d, [s1 EXCEPT !.current_segment[1].bitrate = atoi(val)])

\* the position of the first c in s, 0 when there is none (strchr)
RECURSIVE strchr(_, _, _)
strchr(s, c, i) ==
    IF i > Len(s) THEN 0
    ELSE IF SubSeq(s, i, i) = c THEN i
    ELSE strchr(s, c, i + 1)

\* explicit: the scan of the line for the word DURATION found it;
\* attrs: parse_attributes of the text after the ':' (empty without one)
handle_cue_out(d, s, explicit, attrs) ==
    LET cue == get_attr_str_unquoted(attrs, "cue")
        keyed == get_attr(attrs, "duration")
        duration == IF keyed # NULL THEN keyed ELSE get_attr(attrs, "")
    IN Out(d, [s EXCEPT
                 !.cue_out_start = TRUE,
                 !.cue_out = TRUE,
                 !.cue_out_explicitly_duration = (@ \/ explicit),
                 !.current_cue_out_scte35 = IF cue # NULL THEN cue ELSE @,
                 !.current_cue_out_duration =
                     IF duration # NULL THEN duration ELSE @])

\* a CUE-OUT-CONT line whose bare value wins over the keyed attributes
handle_cue_out_cont_bare_wins(d, s, attrs) ==
    LET bare == get_attr(attrs, "")
        slash == IF bare = NULL THEN 0 ELSE strchr(bare, "/", 1)
        duration == get_attr_str_unquoted(attrs, "duration")
        scte35 == get_attr_str_unquoted(attrs, "scte35")
        elapsed == get_attr_str_unquoted(attrs, "elapsedtime")
    IN Out(d, [s EXCEPT
                 !.cue_out = TRUE,
                 !.current_cue_out_elapsedtime =
                     IF slash > 0 THEN SubSeq(bare, 1, slash - 1)
                     ELSE IF elapsed # NULL THEN elapsed
                     ELSE @,
                 !.current_cue_out_duration =
                     IF slash > 0 THEN SubSeq(bare, slash + 1, Len(bare))
                     ELSE IF bare # NULL THEN bare
                     ELSE IF duration # NULL THEN duration
                     ELSE @,
                 !.current_cue_out_scte35 =
                     IF scte35 # NULL THEN scte35 ELSE @])

handle_cue_out_cont(d, s, attrs) ==
    LET bare == get_attr(attrs, "")
        slash == IF bare = NULL THEN 0 ELSE strchr(bare, "/", 1)
        duration == get_attr_str_unquoted(attrs, "duration")
        scte35 == get_attr_str_unquoted(attrs, "scte35")
        elapsed == get_attr_str_unquoted(attrs, "elapsedtime")
    IN Out(d, [s EXCEPT
                 !.cue_out = TRUE,
                 !.current_cue_out_elapsedtime =
                     IF elapsed # NULL THEN elapsed
                     ELSE IF slash > 0 THEN SubSeq(bare, 1, slash - 1)
                     ELSE @,
                 !.current_cue_out_duration =
                     IF duration # NULL THEN duration
                     ELSE IF slash > 0 THEN SubSeq(bare, slash + 1, Len(bare))
                     ELSE IF bare # NULL THEN bare
                     ELSE @,
                 !.current_cue_out_scte35 =
                     IF scte35 # NULL THEN scte35 ELSE @])

\* an OATCLS line that stages its payload as scte35 whatever is pending
handle_oatcls_scte35_overwrites(d, s, val) ==
    Out(d, [s EXCEPT
              !.current_cue_out_oatcls_scte35 = val,
              !.current_cue_out_scte35 = val])

handle_oatcls_scte35(d, s, val) ==
    Out(d, [s EXCEPT
              !.current_cue_out_oatcls_scte35 = val,
              !.current_cue_out_scte35 = IF @ = NULL THEN val ELSE @])

\* a handler that keeps the list already pending
handle_asset_keeps_first(d, s, attrs) ==
    Out(d, IF s.asset_metadata # <<>> THEN s
           ELSE [s EXCEPT !.asset_metadata = attrs])

handle_asset(d, s, attrs) == Out(d, [s EXCEPT !.asset_metadata = attrs])

\* a->key[0] == 'x' && a->key[1] == '_'
IsXAttr(a) == Len(a.key) >= 2 /\ SubSeq(a.key, 1, 2) = "x_"

\* dr->next = state->dateranges; state->dateranges = dr
PushDateRange(list, dr) == <<dr>> \o list

handle_daterange(d, s, attrs, ln) ==
    LET dr == [h |-> ln,
               id |-> get_attr_str_unquoted(attrs, "id"),
               class_name |-> get_attr_str_unquoted(attrs, "class"),
               start_date |-> get_attr_str_unquoted(attrs, "start_date"),
               end_date |-> get_attr_str_unquoted(attrs, "end_date"),
               duration |-> get_attr_double(attrs, "duration", 0),
               planned_duration |->
                   get_attr_double(attrs, "planned_duration", 0),
               scte35_cmd |-> get_attr_str(attrs, "scte35_cmd"),
               scte35_out |-> get_attr_str(attrs, "scte35_out"),
               scte35_in |-> get_attr_str(attrs, "scte35_in"),
               end_on_next |-> get_attr_str(attrs, "end_on_next"),
               x_attrs |-> SelectSeq(attrs, IsXAttr)]
    IN Out(d, [s EXCEPT !.dateranges = PushDateRange(@, dr)])

handle_stream_inf(d, s, attrs) ==
    Out([d EXCEPT !.is_variant = TRUE, !.has_media_sequence = FALSE],
        [s EXCEPT !.stream_info = attrs, !.expect_playlist = TRUE])

\* an I-FRAME-STREAM-INF line that takes the place of the staged variant
handle_i_frame_stream_inf_unstages(d, s, attrs, ln) ==
    LET pl == [h |-> ln, uri |-> get_attr_str_unquoted(attrs, "uri"),
               program_id |-> get_attr_int(attrs, "program_id", 0),
               bandwidth |-> get_attr_ll(attrs, "bandwidth", 0),
               average_bandwidth |->
                   get_attr_ll(attrs, "average_bandwidth", 0),
               resolution |-> get_attr_str(attrs, "resolution"),
               codecs |-> get_attr_str_unquoted(attrs, "codecs"),
               video_range |-> get_attr_str_unquoted(attrs, "video_range"),
               hdcp_level |-> get_attr_str(attrs, "hdcp_level"),
               pathway_id |-> get_attr_str_unquoted(attrs, "pathway_id"),
               stable_variant_id |->
                   get_attr_str_unquoted(attrs, "stable_variant_id")]
    IN Out([d EXCEPT !.iframe_playlists = ListAppend(@, pl)],
           [s EXCEPT !.expect_playlist = FALSE])

handle_i_frame_stream_inf(d, s, attrs, ln) ==
    LET pl == [h |-> ln, uri |-> get_attr_str_unquoted(attrs, "uri"),
               program_id |-> get_attr_int(attrs, "program_id", 0),
               bandwidth |-> get_attr_ll(attrs, "bandwidth", 0),
               average_bandwidth |->
                   get_attr_ll(attrs, "average_bandwidth", 0),
               resolution |-> get_attr_str(attrs, "resolution"),
               codecs |-> get_attr_str_unquoted(attrs, "codecs"),
               video_range |-> get_attr_str_unquoted(attrs, "video_range"),
               hdcp_level |-> get_attr_str(attrs, "hdcp_level"),
               pathway_id |-> get_attr_str_unquoted(attrs, "pathway_id"),
               stable_variant_id |->
                   get_attr_str_unquoted(attrs, "stable_variant_id")]
    IN Out([d EXCEPT !.iframe_playlists = ListAppend(@, pl)], s)

handle_image_stream_inf(d, s, attrs, ln) ==
    LET pl == [h |-> ln, uri |-> get_attr_str_unquoted(attrs, "uri"),
               program_id |-> get_attr_int(attrs, "program_id", 0),
               bandwidth |-> get_attr_ll(attrs, "bandwidth", 0),
               average_bandwidth |->
                   get_attr_ll(attrs, "average_bandwidth", 0),
               resolution |-> get_attr_str(attrs, "resolution"),
               codecs |-> get_attr_str_unquoted(attrs, "codecs"),
               pathway_id |-> get_attr_str_unquoted(attrs, "pathway_id"),
               stable_variant_id |->
                   get_attr_str_unquoted(attrs, "stable_variant_id")]
    IN Out([d EXCEPT !.image_playlists = ListAppend(@, pl)], s)

handle_media(d, s, attrs, ln) ==
    LET media == [h |-> ln, type |-> get_attr_str(attrs, "type"),
                  uri |-> get_attr_str_unquoted(attrs, "uri"),
                  group_id |-> get_attr_str_unquoted(attrs, "group_id"),
                  language |-> get_attr_str_unquoted(attrs, "language"),
                  assoc_language |->
                      get_attr_str_unquoted(attrs, "assoc_language"),
                  name |-> get_attr_str_unquoted(attrs, "name"),
                  default_val |-> get_attr_str(attrs, "default"),
                  autoselect |-> get_attr_str(attrs, "autoselect"),
                  forced |-> get_attr_str(attrs, "forced"),
                  instream_id |-> get_attr_str_unquoted(attrs, "instream_id"),
                  characteristics |->
                      get_attr_str_unquoted(attrs, "characteristics"),
                  channels |-> get_attr_str_unquoted(attrs, "channels"),
                  stable_rendition_id |->
                      get_attr_str_unquoted(attrs, "stable_rendition_id")]
    IN Out([d EXCEPT !.media = ListAppend(@, media)], s)

handle_rendition_report(d, s, attrs, ln) ==
    LET last_msn == get_attr(attrs, "last_msn")
        last_part == get_attr(attrs, "last_part")
        rr == [h |-> ln, uri |-> get_attr_str_unquoted(attrs, "uri"),
               last_msn |-> IF last_msn # NULL THEN atoi(last_msn) ELSE 0,
               has_last_msn |-> last_msn # NULL,
               last_part |-> IF last_part # NULL THEN atoi(last_part) ELSE 0,
               has_last_part |-> last_part # NULL]
    IN Out([d EXCEPT !.rendition_reports = ListAppend(@, rr)], s)

handle_session_data(d, s, attrs, ln) ==
    LET sd == [h |-> ln, data_id |-> get_attr_str_unquoted(attrs, "data_id"),
               value |-> get_attr_str_unquoted(attrs, "value"),
               uri |-> get_attr_str_unquoted(attrs, "uri"),
               language |-> get_attr_str_unquoted(attrs, "language")]
    IN Out([d EXCEPT !.session_data = ListAppend(@, sd)], s)

handle_tiles(d, s, attrs, ln) ==
    LET tiles == [h |-> ln, resolution |-> get_attr_str(attrs, "resolution"),
                  layout |-> get_attr_str(attrs, "layout"),
                  duration |-> get_attr_double(attrs, "duration", 0),
                  uri |-> get_attr_str_unquoted(attrs, "uri")]
    IN Out([d EXCEPT !.tiles = ListAppend(@, tiles)], s)

\* a handler that hands the pending dateranges to the part and leaves them
\* pending as well
handle_part_keeps_dateranges(d, s, attrs, ln) ==
    LET part == [h |-> ln, uri |-> get_attr_str_unquoted(attrs, "uri"),
                 duration |-> get_attr_double(attrs, "duration", 0),
                 byterange |-> get_attr_str(attrs, "byterange"),
                 independent |-> get_attr_str(attrs, "independent"),
                 gap |-> get_attr_str(attrs, "gap"),
                 gap_tag |-> s.gap,
                 dateranges |-> s.dateranges]
        s1 == EnsureSegment([s EXCEPT !.gap = FALSE], ln)
    IN Out(d, [s1 EXCEPT !.current_segment[1].parts = ListAppend(@, part)])

\* a PART line that leaves the pending gap flag as it was
handle_part_keeps_gap(d, s, attrs, ln) ==
    LET part == [h |-> ln, uri |-> get_attr_str_unquoted(attrs, "uri"),
                 duration |-> get_attr_double(attrs, "duration", 0),
                 byterange |-> get_attr_str(attrs, "byterange"),
                 independent |-> get_attr_str(attrs, "independent"),
                 gap |-> get_attr_str(attrs, "gap"),
                 gap_tag |-> s.gap,
                 dateranges |-> s.dateranges]
        s1 == EnsureSegment([s EXCEPT !.dateranges = <<>>], ln)
    IN Out(d, [s1 EXCEPT !.current_segment[1].parts = ListAppend(@, part)])

handle_part(d, s, attrs, ln) ==
    LET part == [h |-> ln, uri |-> get_attr_str_unquoted(attrs, "uri"),
                 duration |-> get_attr_double(attrs, "duration", 0),
                 byterange |-> get_attr_str(attrs, "byterange"),
                 independent |-> get_attr_str(attrs, "independent"),
                 gap |-> get_attr_str(attrs, "gap"),
                 gap_tag |-> s.gap,
                 dateranges |-> s.dateranges]
        s1 == EnsureSegment([s EXCEPT !.dateranges = <<>>, !.gap = FALSE], ln)
    IN Out(d, [s1 EXCEPT !.current_segment[1].parts = ListAppend(@, part)])

(***************************************************************************)
(* Finalizers                                                              *)
(***************************************************************************)

\* "Apply state": the segment takes the pending flags and strings.  With
\* cue_out set it takes copies of the SCTE-35 strings and of the asset
\* metadata; otherwise it takes the pointers themselves.
ApplyState(seg, s, uri) ==
    [seg EXCEPT
       !.uri = uri,
       !.discontinuity = s.discontinuity,
       !.cue_in = s.cue_in,
       !.cue_out = s.cue_out,
       !.cue_out_start = s.cue_out_start,
       !.cue_out_explicitly_duration = s.cue_out_explicitly_duration,
       !.gap_tag = s.gap,
       !.blackout = IF s.blackout # NULL THEN s.blackout ELSE @,
       !.program_date_time =
           IF s.program_date_time # NULL THEN s.program_date_time ELSE @,
       !.scte35 = s.current_cue_out_scte35,
       !.oatcls_scte35 = s.current_cue_out_oatcls_scte35,
       !.scte35_duration = s.current_cue_out_duration,
       !.scte35_elapsedtime = s.current_cue_out_elapsedtime,
       !.asset_metadata =
           IF s.asset_metadata # <<>> THEN s.asset_metadata ELSE @,
       !.key = s.current_key,
       !.init_section = s.current_map,
       !.dateranges = s.dateranges]

\* What finalize_segment leaves on the parser state: the SCTE-35 strings and
\* the asset metadata stay when cue_out was set (the segment holds copies)
\* and are nulled otherwise (the segment holds them); then "Reset state".
StateAfterSegment(s) ==
    LET moved == ~s.cue_out IN
    [s EXCEPT
       !.program_date_time = NULL,
       !.current_cue_out_scte35 = IF moved THEN NULL ELSE @,
       !.current_cue_out_oatcls_scte35 = IF moved THEN NULL ELSE @,
       !.current_cue_out_duration = IF moved THEN NULL ELSE @,
       !.current_cue_out_elapsedtime = IF moved THEN NULL ELSE @,
       !.asset_metadata = IF moved THEN <<>> ELSE @,
       !.dateranges = <<>>,
       !.current_segment = <<>>,
       !.expect_segment = FALSE,
       !.discontinuity = FALSE,
       !.cue_in = FALSE,
       !.cue_out = FALSE,
       !.cue_out_start = FALSE,
       !.cue_out_explicitly_duration = FALSE,
       !.gap = FALSE,
       !.blackout = NULL]

finalize_segment(d, s, uri, ln) ==
    LET seg == IF s.current_segment # <<>>
               THEN s.current_segment[1] ELSE ZeroSegment(ln)
    IN Out([d EXCEPT !.segments = ListAppend(@, ApplyState(seg, s, uri))],
           StateAfterSegment(s))

NewPlaylist(attrs, uri, ln) ==
    LET bw == get_attr(attrs, "bandwidth") IN
    [h |-> ln, uri |-> uri,
     program_id |-> get_attr_int(attrs, "program_id", 0),
     bandwidth |-> IF bw # NULL THEN atoi(bw) ELSE 0,
     average_bandwidth |-> get_attr_ll(attrs, "average_bandwidth", 0),
     resolution |-> get_attr_str(attrs, "resolution"),
     codecs |-> get_attr_str_unquoted(attrs, "codecs"),
     frame_rate |-> get_attr_double(attrs, "frame_rate", 0),
     video |-> get_attr_str_unquoted(attrs, "video"),
     audio |-> get_attr_str_unquoted(attrs, "audio"),
     subtitles |-> get_attr_str_unquoted(attrs, "subtitles"),
     video_range |-> get_attr_str_unquoted(attrs, "video_range"),
     hdcp_level |-> get_attr_str(attrs, "hdcp_level"),
     pathway_id |-> get_attr_str_unquoted(attrs, "pathway_id"),
     stable_variant_id |-> get_attr_str_unquoted(attrs, "stable_variant_id"),
     req_video_layout |-> get_attr_str(attrs, "req_video_layout"),
     closed_captions |-> get_attr(attrs, "closed_captions")]

finalize_playlist(d, s, uri, ln) ==
    Out(IF s.stream_info # <<>>
        THEN [d EXCEPT !.playlists =
                         ListAppend(@, NewPlaylist(s.stream_info, uri, ln))]
        ELSE d,
        [s EXCEPT !.stream_info = <<>>, !.expect_playlist = FALSE])

\* a line loop that tries the variant path first
UriPath_playlist_first(s) ==
    IF s.expect_playlist THEN "playlist"
    ELSE IF s.expect_segment THEN "segment"
    ELSE "ignored"

\* The branch the line loop takes on a line that does not start with '#'.
UriPath(s) ==
    IF s.expect_segment THEN "segment"
    ELSE IF s.expect_playlist THEN "playlist"
    ELSE "ignored"

\* a line loop that finalizes a segment on every line that is not a tag
uri_line_always_segment(d, s, uri, ln) ==
    IF UriPath(s) = "playlist" THEN finalize_playlist(d, s, uri, ln)
    ELSE finalize_segment(d, s, uri, ln)

\* a line loop that runs both finalizations when both flags are set
uri_line_finalizes_both(d, s, uri, ln) ==
    IF s.expect_segment /\ s.expect_playlist
    THEN LET seg == finalize_segment(d, s, uri, ln)
         IN finalize_playlist(seg.data, seg.state, uri, ln)
    ELSE CASE UriPath(s) = "segment" -> finalize_segment(d, s, uri, ln)
           [] UriPath(s) = "playlist" -> finalize_playlist(d, s, uri, ln)
           [] OTHER -> Out(d, s)

uri_line(d, s, uri, ln) ==
    CASE UriPath(s) = "segment" -> finalize_segment(d, s, uri, ln)
      [] UriPath(s) = "playlist" -> finalize_playlist(d, s, uri, ln)
      [] OTHER -> Out(d, s)

\* an end of input that drops the in-progress segment's place: it is put
\* at the head of the list
end_of_input_at_head(d, s) ==
    Out(IF s.current_segment # <<>>
        THEN [d EXCEPT !.segments = <<s.current_segment[1]>> \o @]
        ELSE d,
        [s EXCEPT !.dateranges = <<>>])

\* an end of input that finalizes the in-progress segment with a null uri
end_of_input_finalizes(d, s) ==
    Out(IF s.current_segment # <<>>
        THEN [d EXCEPT !.segments =
                         Append(@, ApplyState(s.current_segment[1], s, NULL))]
        ELSE d,
        [s EXCEPT !.dateranges = <<>>])

\* "Handle partial segment at end", then "Clean up state": the strings and
\* lists still pending are freed, and the loop that frees the pending
\* dateranges leaves state.dateranges null.
end_of_input(d, s) ==
    Out(IF s.current_segment # <<>>
        THEN [d EXCEPT !.segments = ListAppend(@, s.current_segment[1])]
        ELSE d,
        [s EXCEPT !.dateranges = <<>>])

(***************************************************************************)
(* The inputs: for each tag, the bodies a line of the input may carry.     *)
(***************************************************************************)

Attr(k, v) == [key |-> k, value |-> v]

Uris == {"a.ts", "b.ts"}

KeyAttrs ==
    {<<Attr("method", "AES-128"), Attr("uri", "\"k1\"")>>,
     <<Attr("method", "NONE")>>}

MapAttrs == {<<Attr("uri", "\"init.mp4\"")>>}

ExtinfBodies == {[duration |-> "4", title |-> NULL]}

ByterangeVals == {"100@0"}

BitrateVals == {"800"}

PartAttrs == {<<Attr("uri", "\"p.ts\""), Attr("duration", "1")>>}

DateRangeAttrs == {<<Attr("id", "\"d1\""), Attr("x_custom", "\"v\"")>>}

AssetAttrs == {<<>>, <<Attr("id", "a1")>>, <<Attr("id", "a2")>>}

ProgramDateTimeVals == {"2024-01-01T00:00:00Z"}

\* #EXT-X-BLACKOUT and #EXT-X-BLACKOUT:<params>
BlackoutParams == {NULL, "x"}

\* #EXT-X-CUE-OUT:30 and #EXT-X-CUE-OUT:DURATION=30,cue="c1"
CueOutBodies ==
    {[explicit |-> FALSE, attrs |-> <<Attr("", "30")>>],
     [explicit |-> TRUE,
      attrs |-> <<Attr("duration", "30"), Attr("cue", "\"c1\"")>>]}

\* #EXT-X-CUE-OUT-CONT:10/30,scte35="c1"
CueOutContAttrs == {<<Attr("", "10/30"), Attr("scte35", "\"c1\"")>>}

OatclsVals == {"oat1"}

StreamInfAttrs == {<<>>, <<Attr("bandwidth", "5000000")>>}

IFrameStreamInfAttrs == {<<Attr("bandwidth", "100"), Attr("uri", "\"i.m3u8\"")>>}

ImageStreamInfAttrs == {<<Attr("bandwidth", "50"), Attr("uri", "\"t.m3u8\"")>>}

MediaAttrs == {<<Attr("type", "AUDIO"), Attr("group_id", "\"g\"")>>}

RenditionReportAttrs == {<<Attr("uri", "\"r.m3u8\""), Attr("last_msn", "7")>>}

SessionDataAttrs == {<<Attr("data_id", "\"id\""), Attr("value", "\"v\"")>>}

TilesAttrs == {<<Attr("resolution", "64x36"), Attr("uri", "\"t.jpg\"")>>}

(***************************************************************************)
(* The allocator.  An allocation is named by the number of the line during *)
(* which it was made and by what it was made for.  A node (segment, part,  *)
(* key, ...) stands for its struct and the strings its handler allocates   *)
(* with it and m3u8_free releases with it; an attribute list stands for    *)
(* its nodes and their strings.  The strings and lists that go from the    *)
(* parser state to a segment are allocations of their own, and `at` holds  *)
(* the pointer stored at each place they can be stored at.                 *)
(***************************************************************************)

Handle(ln, what) == [ln |-> ln, what |-> what]

\* the null pointer
Nil == Handle(0, "")

Place(owner, n, slot) == [owner |-> owner, n |-> n, slot |-> slot]

\* a field of ParserState, of M3U8Data, of the M3U8Segment allocated on
\* line h
InState(slot) == Place("state", 0, slot)

InData(slot) == Place("data", 0, slot)

InSegment(h, slot) == Place("segment", h, slot)

\* The allocations are not represented.
NoHeap == [on |-> FALSE, live |-> {}, freed |-> {}, twice |-> {}, at |-> <<>>]

\* M3U8Data *data = calloc(1, sizeof(M3U8Data))
EmptyHeap == [NoHeap EXCEPT !.on = TRUE, !.live = {Handle(0, "data")}]

PointsTo(hp, place) == IF place \in DOMAIN hp.at THEN hp.at[place] ELSE Nil

malloc(hp, h) == IF h = Nil THEN hp ELSE [hp EXCEPT !.live = @ \cup {h}]

\* free(NULL) does nothing; a pointer that is not live has been freed before
free(hp, h) ==
    IF h = Nil THEN hp
    ELSE IF h \in hp.live
    THEN [hp EXCEPT !.live = @ \ {h}, !.freed = @ \cup {h}]
    ELSE [hp EXCEPT !.twice = @ \cup {h}]

store(hp, place, h) ==
    [hp EXCEPT !.at = [p \in (DOMAIN @) \cup {place} |->
                          IF p = place THEN h ELSE @[p]]]

\* The statements of a handler that allocate, release or assign a pointer:
\* x = calloc / str_dup / parse_attributes (the allocation h)
Alloc(h) == [op |-> "alloc", h |-> h]
\* free(x) / free_attributes(x) of a local x that holds h
Release(h) == [op |-> "release", h |-> h]
\* place = str_dup(..), place = parse_attributes(..)
New(place, h) == [op |-> "new", place |-> place, h |-> h]
\* free(place) / free_attributes(place); the pointer stays
Free(place) == [op |-> "free", place |-> place]
\* place = NULL
Null(place) == [op |-> "null", place |-> place]
\* to = from
Move(from, to) == [op |-> "move", from |-> from, to |-> to]

Do(hp, o) ==
    CASE o.op = "alloc" -> malloc(hp, o.h)
      [] o.op = "release" -> free(hp, o.h)
      [] o.op = "new" -> store(malloc(hp, o.h), o.place, o.h)
      [] o.op = "free" -> free(hp, PointsTo(hp, o.place))
      [] o.op = "null" -> store(hp, o.place, Nil)
      [] o.op = "move" -> store(hp, o.to, PointsTo(hp, o.from))

RECURSIVE Run(_, _)
Run(hp, ops) == IF ops = <<>> THEN hp ELSE Run(Do(hp, Head(ops)), Tail(ops))

\* parse_attributes returns NULL for a body without attributes
AttrList(ln, attrs) == IF attrs = <<>> THEN Nil ELSE Handle(ln, "attrs")

\* attrs = parse_attributes(..); node = calloc(..); free_attributes(attrs)
NodeFromAttrs(ln, attrs, what) ==
    <<Alloc(AttrList(ln, attrs)), Alloc(Handle(ln, what)),
      Release(AttrList(ln, attrs))>>

\* if (!state->current_segment) state->current_segment = calloc(..)
SegmentIfNone(s, ln) ==
    IF s.current_segment = <<>> THEN <<Alloc(Handle(ln, "segment"))>> ELSE <<>>

\* free(place); place = <a new string>
Replace(place, h) == <<Free(place), New(place, h)>>

When(cond, ops) == IF cond THEN ops ELSE <<>>

Scte35Slots ==
    <<[pending |-> "current_cue_out_scte35", segment |-> "scte35"],
      [pending |-> "current_cue_out_oatcls_scte35", segment |-> "oatcls_scte35"],
      [pending |-> "current_cue_out_duration", segment |-> "scte35_duration"],
      [pending |-> "current_cue_out_elapsedtime",
       segment |-> "scte35_elapsedtime"]>>

\* the value of the state field of that name
Pending(s, slot) ==
    CASE slot = "current_cue_out_scte35" -> s.current_cue_out_scte35
      [] slot = "current_cue_out_oatcls_scte35" -> s.current_cue_out_oatcls_scte35
      [] slot = "current_cue_out_duration" -> s.current_cue_out_duration
      [] slot = "current_cue_out_elapsedtime" -> s.current_cue_out_elapsedtime

\* under cue_out the segment field gets the state's pointer itself and the
\* state keeps it
Scte35Ops_shares_pointer(s, h, ln, k) ==
    LET sl == Scte35Slots[k] IN
    IF s.cue_out
    THEN <<Move(InState(sl.pending), InSegment(h, sl.segment))>>
    ELSE <<Move(InState(sl.pending), InSegment(h, sl.segment)),
           Null(InState(sl.pending))>>

\* "SCTE35 handling", one string: str_dup under cue_out, else the pointer
\* goes to the segment and the state field is nulled
Scte35Ops(s, h, ln, k) ==
    LET sl == Scte35Slots[k] IN
    IF s.cue_out
    THEN When(Pending(s, sl.pending) # NULL,
              <<New(InSegment(h, sl.segment), Handle(ln, sl.segment))>>)
    ELSE <<Move(InState(sl.pending), InSegment(h, sl.segment)),
           Null(InState(sl.pending))>>

\* "Asset metadata": a copy of the list under cue_out, else the list itself
AssetOps(s, h, ln) ==
    When(s.asset_metadata # <<>>,
         IF s.cue_out
         THEN <<New(InSegment(h, "asset_metadata"),
                    Handle(ln, "asset_metadata"))>>
         ELSE <<Move(InState("asset_metadata"), InSegment(h, "asset_metadata")),
                Null(InState("asset_metadata"))>>)

finalize_segment_ops(s, ln) ==
    LET h == IF s.current_segment # <<>> THEN s.current_segment[1].h ELSE ln
    IN SegmentIfNone(s, ln)
       \o When(s.blackout # NULL,
               <<New(InSegment(h, "blackout"), Handle(ln, "blackout"))>>)
       \o When(s.program_date_time # NULL,
               <<New(InSegment(h, "program_date_time"),
                     Handle(ln, "program_date_time")),
                 Free(InState("program_date_time")),
                 Null(InState("program_date_time"))>>)
       \o Scte35Ops(s, h, ln, 1) \o Scte35Ops(s, h, ln, 2)
       \o Scte35Ops(s, h, ln, 3) \o Scte35Ops(s, h, ln, 4)
       \o AssetOps(s, h, ln)
       \o <<Free(InState("blackout")), Null(InState("blackout"))>>

\* pl = calloc(..) is appended under if (pl && state->stream_info) and is
\* not released otherwise
finalize_playlist_ops(s, ln) ==
    <<Alloc(Handle(ln, "playlist")),
      Free(InState("stream_info")), Null(InState("stream_info"))>>

handle_cue_out_ops(s, attrs, ln) ==
    LET keyed == get_attr(attrs, "duration")
        duration == IF keyed # NULL THEN keyed ELSE get_attr(attrs, "")
    IN <<Alloc(AttrList(ln, attrs))>>
       \o When(get_attr(attrs, "cue") # NULL,
               Replace(InState("current_cue_out_scte35"), Handle(ln, "cue")))
       \o When(duration # NULL,
               Replace(InState("current_cue_out_duration"),
                       Handle(ln, "duration")))
       \o <<Release(AttrList(ln, attrs))>>

handle_cue_out_cont_ops(s, attrs, ln) ==
    LET bare == get_attr(attrs, "")
        slash == IF bare = NULL THEN 0 ELSE strchr(bare, "/", 1)
    IN <<Alloc(AttrList(ln, attrs))>>
       \o When(slash > 0,
               Replace(InState("current_cue_out_elapsedtime"),
                       Handle(ln, "elapsed/")))
       \o When(bare # NULL,
               Replace(InState("current_cue_out_duration"),
                       Handle(ln, "/duration")))
       \o When(get_attr(attrs, "duration") # NULL,
               Replace(InState("current_cue_out_duration"),
                       Handle(ln, "duration")))
       \o When(get_attr(attrs, "scte35") # NULL,
               Replace(InState("current_cue_out_scte35"),
                       Handle(ln, "scte35")))
       \o When(get_attr(attrs, "elapsedtime") # NULL,
               Replace(InState("current_cue_out_elapsedtime"),
                       Handle(ln, "elapsedtime")))
       \o <<Release(AttrList(ln, attrs))>>

\* The allocations, releases and pointer assignments of the iteration of the
\* line loop on a line of that tag, in the order of the statements.
LineOps(tag, val, path, d, s, ln) ==
    CASE tag \in {"EXTINF", "BYTERANGE", "BITRATE"} -> SegmentIfNone(s, ln)
      [] tag = "PART" ->
           <<Alloc(AttrList(ln, val)), Alloc(Handle(ln, "part"))>>
             \o SegmentIfNone(s, ln) \o <<Release(AttrList(ln, val))>>
      [] tag = "KEY" -> NodeFromAttrs(ln, val, "key")
      [] tag = "SESSION-KEY" -> NodeFromAttrs(ln, val, "session_key")
      [] tag = "MAP" -> NodeFromAttrs(ln, val, "map")
      [] tag = "DATERANGE" -> NodeFromAttrs(ln, val, "daterange")
      [] tag = "I-FRAME-STREAM-INF" -> NodeFromAttrs(ln, val, "iframe_playlist")
      [] tag = "IMAGE-STREAM-INF" -> NodeFromAttrs(ln, val, "image_playlist")
      [] tag = "MEDIA" -> NodeFromAttrs(ln, val, "media")
      [] tag = "RENDITION-REPORT" -> NodeFromAttrs(ln, val, "rendition_report")
      [] tag = "SESSION-DATA" -> NodeFromAttrs(ln, val, "session_data")
      [] tag = "TILES" -> NodeFromAttrs(ln, val, "tiles")
      [] tag = "ASSET" ->
           <<Free(InState("asset_metadata")),
             New(InState("asset_metadata"), AttrList(ln, val))>>
      [] tag = "STREAM-INF" ->
           <<Free(InState("stream_info")),
             New(InState("stream_info"), AttrList(ln, val))>>
      [] tag = "PROGRAM-DATE-TIME" ->
           Replace(InState("program_date_time"), Handle(ln, "program_date_time"))
             \o When(d.program_date_time = NULL,
                     <<New(InData("program_date_time"),
                           Handle(ln, "data.program_date_time"))>>)
      [] tag = "ALLOW-CACHE" ->
           <<New(InData("allow_cache"), Handle(ln, "allow_cache"))>>
      [] tag = "PLAYLIST-TYPE" ->
           <<New(InData("playlist_type"), Handle(ln, "playlist_type"))>>
      [] tag = "BLACKOUT" -> Replace(InState("blackout"), Handle(ln, "blackout"))
      [] tag = "CUE-OUT" -> handle_cue_out_ops(s, val.attrs, ln)
      [] tag = "CUE-OUT-CONT" -> handle_cue_out_cont_ops(s, val, ln)
      [] tag = "OATCLS-SCTE35" ->
           Replace(InState("current_cue_out_oatcls_scte35"),
                   Handle(ln, "oatcls_scte35"))
             \o When(s.current_cue_out_scte35 = NULL,
                     <<New(InState("current_cue_out_scte35"),
                           Handle(ln, "scte35"))>>)
      [] tag = "URI" /\ path = "segment" -> finalize_segment_ops(s, ln)
      [] tag = "URI" /\ path = "playlist" -> finalize_playlist_ops(s, ln)
      [] OTHER -> <<>>

\* the nodes of a list of the document, as allocations
Nodes(list, what) == [i \in 1..Len(list) |-> Handle(list[i].h, what)]

ReleaseAll(list, what) ==
    [i \in 1..Len(list) |-> Release(Handle(list[i].h, what))]

\* "Clean up state" and "Free dateranges not attached to a segment"
cleanup_ops(s) ==
    <<Free(InState("program_date_time")), Free(InState("blackout")),
      Free(InState("current_cue_out_scte35")),
      Free(InState("current_cue_out_oatcls_scte35")),
      Free(InState("current_cue_out_duration")),
      Free(InState("current_cue_out_elapsedtime")),
      Free(InState("stream_info")), Free(InState("asset_metadata"))>>
      \o ReleaseAll(s.dateranges, "daterange")

RECURSIVE Concat(_)
Concat(seqs) == IF seqs = <<>> THEN <<>> ELSE Head(seqs) \o Concat(Tail(seqs))

\* free_parts
free_parts_ops(parts) ==
    Concat([i \in 1..Len(parts) |->
              ReleaseAll(parts[i].dateranges, "daterange")
                \o <<Release(Handle(parts[i].h, "part"))>>])

\* a release that takes the key and the init section of a segment for its own
free_segment_ops_with_key_and_map(seg) ==
    <<Free(InSegment(seg.h, "program_date_time")),
      Free(InSegment(seg.h, "scte35")),
      Free(InSegment(seg.h, "oatcls_scte35")),
      Free(InSegment(seg.h, "scte35_duration")),
      Free(InSegment(seg.h, "scte35_elapsedtime")),
      Free(InSegment(seg.h, "blackout")),
      Free(InSegment(seg.h, "asset_metadata")),
      Release(IF seg.key = 0 THEN Nil ELSE Handle(seg.key, "key")),
      Release(IF seg.init_section = 0 THEN Nil
              ELSE Handle(seg.init_section, "map"))>>
      \o ReleaseAll(seg.dateranges, "daterange")
      \o free_parts_ops(seg.parts)
      \o <<Release(Handle(seg.h, "segment"))>>

\* the body of the loop "Free segments" of m3u8_free
free_segment_ops(seg) ==
    <<Free(InSegment(seg.h, "program_date_time")),
      Free(InSegment(seg.h, "scte35")),
      Free(InSegment(seg.h, "oatcls_scte35")),
      Free(InSegment(seg.h, "scte35_duration")),
      Free(InSegment(seg.h, "scte35_elapsedtime")),
      Free(InSegment(seg.h, "blackout")),
      Free(InSegment(seg.h, "asset_metadata"))>>
      \o ReleaseAll(seg.dateranges, "daterange")
      \o free_parts_ops(seg.parts)
      \o <<Release(Handle(seg.h, "segment"))>>

m3u8_free_ops(d) ==
    <<Free(InData("allow_cache")), Free(InData("playlist_type")),
      Free(InData("program_date_time"))>>
      \o Concat([i \in 1..Len(d.segments) |-> free_segment_ops(d.segments[i])])
      \o ReleaseAll(d.playlists, "playlist")
      \o ReleaseAll(d.iframe_playlists, "iframe_playlist")
      \o ReleaseAll(d.image_playlists, "image_playlist")
      \o ReleaseAll(d.media, "media")
      \o ReleaseAll(d.keys, "key")
      \o ReleaseAll(d.session_keys, "session_key")
      \o ReleaseAll(d.segment_map, "map")
      \o ReleaseAll(d.rendition_reports, "rendition_report")
      \o ReleaseAll(d.session_data, "session_data")
      \o ReleaseAll(d.tiles, "tiles")
      \o <<Release(Handle(0, "data"))>>

(***************************************************************************)
(* The line loop of m3u8_parse.  An action is one iteration on a line of   *)
(* one kind; max bounds the number of lines of the input.                  *)
(***************************************************************************)

\* No call of parse_attributes is being followed.
NoLex == [line |-> "", after |-> "", p |-> 0, attrs |-> <<>>, running |-> FALSE]

\* The bytes are not represented: the lines are chosen one after the other.
NoContent == [mem |-> "<lines>", length |-> 0]

Init ==
    /\ input = <<>>
    /\ data = ZeroData
    /\ state = ZeroState
    /\ pc = "scan"
    /\ content = NoContent
    /\ cursor = 0
    /\ lex = NoLex
    /\ heap = NoHeap

\* the number of the line under the cursor
lineno == Len(input) + 1

Scanning(max) == pc = "scan" /\ Len(input) < max

Consume(tag, val, path, out) ==
    /\ input' = Append(input, [tag |-> tag, val |-> val, path |-> path])
    /\ data' = out.data
    /\ state' = out.state
    /\ pc' = pc
    /\ heap' = IF heap.on
               THEN Run(heap, LineOps(tag, val, path, data, state, lineno))
               ELSE heap
    /\ UNCHANGED <<content, cursor, lex>>

ExtinfLine(max) ==
    /\ Scanning(max)
    /\ \E b \in ExtinfBodies :
         Consume("EXTINF", b, "tag", handle_extinf(data, state, b, lineno))

ByterangeLine(max) ==
    /\ Scanning(max)
    /\ \E v \in ByterangeVals :
         Consume("BYTERANGE", v, "tag", handle_byterange(data, state, v, lineno))

BitrateLine(max) ==
    /\ Scanning(max)
    /\ \E v \in BitrateVals :
         Consume("BITRATE", v, "tag", handle_bitrate(data, state, v, lineno))

PartLine(max) ==
    /\ Scanning(max)
    /\ \E a \in PartAttrs :
         Consume("PART", a, "tag", handle_part(data, state, a, lineno))

KeyLine(max) ==
    /\ Scanning(max)
    /\ \E a \in KeyAttrs :
         Consume("KEY", a, "tag", handle_key(data, state, a, lineno))

SessionKeyLine(max) ==
    /\ Scanning(max)
    /\ \E a \in KeyAttrs :
         Consume("SESSION-KEY", a, "tag",
                 handle_session_key(data, state, a, lineno))

MapLine(max) ==
    /\ Scanning(max)
    /\ \E a \in MapAttrs :
         Consume("MAP", a, "tag", handle_map(data, state, a, lineno))

DateRangeLine(max) ==
    /\ Scanning(max)
    /\ \E a \in DateRangeAttrs :
         Consume("DATERANGE", a, "tag", handle_daterange(data, state, a, lineno))

AssetLine(max) ==
    /\ Scanning(max)
    /\ \E a \in AssetAttrs :
         Consume("ASSET", a, "tag", handle_asset(data, state, a))

ProgramDateTimeLine(max) ==
    /\ Scanning(max)
    /\ \E v \in ProgramDateTimeVals :
         Consume("PROGRAM-DATE-TIME", v, "tag",
                 handle_program_date_time(data, state, v))

DiscontinuityLine(max) ==
    /\ Scanning(max)
    /\ Consume("DISCONTINUITY", NULL, "tag", handle_discontinuity(data, state))

GapLine(max) ==
    /\ Scanning(max)
    /\ Consume("GAP", NULL, "tag", handle_gap(data, state))

BlackoutLine(max) ==
    /\ Scanning(max)
    /\ \E v \in BlackoutParams :
         Consume("BLACKOUT", v, "tag", handle_blackout(data, state, v))

CueInLine(max) ==
    /\ Scanning(max)
    /\ Consume("CUE-IN", NULL, "tag", handle_cue_in(data, state))

CueSpanLine(max) ==
    /\ Scanning(max)
    /\ Consume("CUE-SPAN", NULL, "tag", handle_cue_span(data, state))

CueOutLine(max) ==
    /\ Scanning(max)
    /\ \E b \in CueOutBodies :
         Consume("CUE-OUT", b, "tag",
                 handle_cue_out(data, state, b.explicit, b.attrs))

CueOutContLine(max) ==
    /\ Scanning(max)
    /\ \E a \in CueOutContAttrs :
         Consume("CUE-OUT-CONT", a, "tag",
                 handle_cue_out_cont(data, state, a))

OatclsLine(max) ==
    /\ Scanning(max)
    /\ \E v \in OatclsVals :
         Consume("OATCLS-SCTE35", v, "tag",
                 handle_oatcls_scte35(data, state, v))

StreamInfLine(max) ==
    /\ Scanning(max)
    /\ \E a \in StreamInfAttrs :
         Consume("STREAM-INF", a, "tag", handle_stream_inf(data, state, a))

IFrameStreamInfLine(max) ==
    /\ Scanning(max)
    /\ \E a \in IFrameStreamInfAttrs :
         Consume("I-FRAME-STREAM-INF", a, "tag",
                 handle_i_frame_stream_inf(data, state, a, lineno))

ImageStreamInfLine(max) ==
    /\ Scanning(max)
    /\ \E a \in ImageStreamInfAttrs :
         Consume("IMAGE-STREAM-INF", a, "tag",
                 handle_image_stream_inf(data, state, a, lineno))

MediaLine(max) ==
    /\ Scanning(max)
    /\ \E a \in MediaAttrs :
         Consume("MEDIA", a, "tag", handle_media(data, state, a, lineno))

RenditionReportLine(max) ==
    /\ Scanning(max)
    /\ \E a \in RenditionReportAttrs :
         Consume("RENDITION-REPORT", a, "tag",
                 handle_rendition_report(data, state, a, lineno))

SessionDataLine(max) ==
    /\ Scanning(max)
    /\ \E a \in SessionDataAttrs :
         Consume("SESSION-DATA", a, "tag",
                 handle_session_data(data, state, a, lineno))

TilesLine(max) ==
    /\ Scanning(max)
    /\ \E a \in TilesAttrs :
         Consume("TILES", a, "tag", handle_tiles(data, state, a, lineno))

\* a line that does not start with '#'
UriLine(max, uris) ==
    /\ Scanning(max)
    /\ \E u \in uris :
         Consume("URI", u, UriPath(state), uri_line(data, state, u, lineno))

\* the cursor has reached the end of the input
EndOfInput ==
    /\ pc = "scan"
    /\ LET out == end_of_input(data, state) IN
         /\ data' = out.data
         /\ state' = out.state
    /\ pc' = "done"
    /\ input' = input
    /\ heap' = IF heap.on THEN Run(heap, cleanup_ops(state)) ELSE heap
    /\ UNCHANGED <<content, cursor, lex>>

(***************************************************************************)
(* Specifications.  Spec lets the input hold every modelled line; the      *)
(* others restrict the input to the tags that read or write the fields a   *)
(* group of properties is about, so that longer inputs can be explored.    *)
(***************************************************************************)

MaxLines == 3

Next ==
    \/ ExtinfLine(MaxLines) \/ ByterangeLine(MaxLines)
    \/ BitrateLine(MaxLines) \/ PartLine(MaxLines)
    \/ KeyLine(MaxLines) \/ SessionKeyLine(MaxLines) \/ MapLine(MaxLines)
    \/ DateRangeLine(MaxLines) \/ AssetLine(MaxLines)
    \/ ProgramDateTimeLine(MaxLines)
    \/ DiscontinuityLine(MaxLines) \/ GapLine(MaxLines)
    \/ BlackoutLine(MaxLines)
    \/ CueInLine(MaxLines) \/ CueSpanLine(MaxLines)
    \/ CueOutLine(MaxLines) \/ CueOutContLine(MaxLines)
    \/ OatclsLine(MaxLines)
    \/ StreamInfLine(MaxLines) \/ IFrameStreamInfLine(MaxLines)
    \/ ImageStreamInfLine(MaxLines) \/ MediaLine(MaxLines)
    \/ RenditionReportLine(MaxLines) \/ SessionDataLine(MaxLines)
    \/ TilesLine(MaxLines)
    \/ UriLine(MaxLines, Uris)
    \/ EndOfInput

Spec == Init /\ [][Next]_vars

(***************************************************************************)
(* The input seen from the result: where the lines of a kind stand.        *)
(***************************************************************************)

LineNumbers == [i \in 1..Len(input) |-> i]

\* the numbers of the lines carrying the tag, in input order
LinesOf(tag) == SelectSeq(LineNumbers, LAMBDA i : input[i].tag = tag)

\* the numbers of the URI lines the loop handed to finalize_segment
SegmentLines ==
    SelectSeq(LineNumbers,
              LAMBDA i : input[i].tag = "URI" /\ input[i].path = "segment")

\* the numbers of the URI lines the loop handed to finalize_playlist
PlaylistLines ==
    SelectSeq(LineNumbers,
              LAMBDA i : input[i].tag = "URI" /\ input[i].path = "playlist")

\* the number of the last line before line p that satisfies Test, 0 if none
LastBefore(p, Test(_)) ==
    IF \E i \in 1..(p - 1) : Test(input[i])
    THEN CHOOSE i \in 1..(p - 1) :
             /\ Test(input[i])
             /\ \A j \in (i + 1)..(p - 1) : ~Test(input[j])
    ELSE 0

\* the addresses of the nodes of a list, head first
Addresses(list) == [i \in 1..Len(list) |-> list[i].h]

\* the segments a URI line finalized: all but the end-of-input remnant
NumFinalized == Len(SegmentLines)

\* the segment list ends with the in-progress segment left at end of input
HasRemnant == Len(data.segments) = NumFinalized + 1

\* the line that finalized the i-th segment, and the one before it (0 for
\* the first): the lines in between are those "since the previous segment
\* finalization"
FinalizedAt(i) == SegmentLines[i]

PreviousFinalization(i) == IF i = 1 THEN 0 ELSE SegmentLines[i - 1]

\* some line strictly between lines p and q satisfies Test
Between(p, q, Test(_)) == \E j \in (p + 1)..(q - 1) : Test(input[j])

(***************************************************************************)
(* SpecColl: the lines that append to a document-level collection.         *)
(***************************************************************************)

MaxLinesColl == 4

NextColl ==
    \/ KeyLine(MaxLinesColl) \/ SessionKeyLine(MaxLinesColl)
    \/ MapLine(MaxLinesColl) \/ StreamInfLine(MaxLinesColl)
    \/ IFrameStreamInfLine(MaxLinesColl)
    \/ ImageStreamInfLine(MaxLinesColl) \/ MediaLine(MaxLinesColl)
    \/ RenditionReportLine(MaxLinesColl) \/ SessionDataLine(MaxLinesColl)
    \/ TilesLine(MaxLinesColl)
    \/ ExtinfLine(MaxLinesColl)
    \/ UriLine(MaxLinesColl, Uris)
    \/ EndOfInput

SpecColl == Init /\ [][NextColl]_vars

\* the playlist-path URI lines that append a Variant: those reached with a
\* non-empty staged stream_info (the body of the last STREAM-INF line)
VariantLines ==
    SelectSeq(PlaylistLines,
              LAMBDA p : input[LastBefore(p, LAMBDA l : l.tag = "STREAM-INF")].val
                             # <<>>)

\* C1: every document-level collection holds exactly one node per line that
\* produced one, in the order of those lines (no reordering, merging or
\* deduplication): the nodes of a tag's list are those allocated by the
\* lines of that tag, in input order; the i-th variant is the one of the
\* i-th URI line that finalized a playlist; the i-th segment's uri is the
\* i-th URI line consumed on the segment path, each segment was allocated
\* after the previous one was finalized, and the end-of-input remnant, the
\* only other segment, comes last.
C1_CollectionsKeepInputOrder ==
    /\ Addresses(data.keys) = LinesOf("KEY")
    /\ Addresses(data.session_keys) = LinesOf("SESSION-KEY")
    /\ Addresses(data.segment_map) = LinesOf("MAP")
    /\ Addresses(data.iframe_playlists) = LinesOf("I-FRAME-STREAM-INF")
    /\ Addresses(data.image_playlists) = LinesOf("IMAGE-STREAM-INF")
    /\ Addresses(data.media) = LinesOf("MEDIA")
    /\ Addresses(data.rendition_reports) = LinesOf("RENDITION-REPORT")
    /\ Addresses(data.session_data) = LinesOf("SESSION-DATA")
    /\ Addresses(data.tiles) = LinesOf("TILES")
    /\ Addresses(data.playlists) = VariantLines
    /\ \A i \in 1..Len(data.playlists) :
         data.playlists[i].uri = input[VariantLines[i]].val
    /\ Len(data.segments) \in {NumFinalized, NumFinalized + 1}
    /\ \A i \in 1..NumFinalized :
         /\ data.segments[i].uri = input[FinalizedAt(i)].val
         /\ PreviousFinalization(i) < data.segments[i].h
         /\ data.segments[i].h <= FinalizedAt(i)
    /\ HasRemnant =>
         /\ pc = "done"
         /\ data.segments[Len(data.segments)].h
              > PreviousFinalization(NumFinalized + 1)

\* two segments with different URIs, finalized one after the other
C1_Witness ==
    /\ Len(data.segments) = 2
    /\ data.segments[1].uri = "a.ts"
    /\ data.segments[2].uri = "b.ts"

(***************************************************************************)
(* Spec: every modelled line                                               *)
(***************************************************************************)

\* C2: every segment of the list has a non-null uri except at most one, the
\* in-progress segment left over at end of input, which is the last element
\* of the returned list.
C2_OnlyRemnantHasNullUri ==
    \A i \in 1..Len(data.segments) :
        data.segments[i].uri = NULL =>
            /\ pc = "done"
            /\ i = Len(data.segments)
            /\ i = NumFinalized + 1
            /\ state.current_segment = <<data.segments[i]>>

\* a finalized segment followed by the end-of-input remnant
C2_Witness ==
    /\ pc = "done"
    /\ Len(data.segments) = 2
    /\ data.segments[1].uri # NULL
    /\ data.segments[2].uri = NULL

(***************************************************************************)
(* SpecKeys: the lines that create keys and maps, and the segment path.    *)
(***************************************************************************)

MaxLinesKeys == 6

NextKeys ==
    \/ KeyLine(MaxLinesKeys) \/ SessionKeyLine(MaxLinesKeys)
    \/ MapLine(MaxLinesKeys)
    \/ ExtinfLine(MaxLinesKeys)
    \/ UriLine(MaxLinesKeys, {"a.ts"})
    \/ EndOfInput

SpecKeys == Init /\ [][NextKeys]_vars

IsKeyLine(l) == l.tag = "KEY"

IsMapLine(l) == l.tag = "MAP"

\* the point of the input where the i-th segment of the list was appended:
\* the URI line that finalized it, or the end of the input for the remnant
AppendedAt(i) == IF i <= NumFinalized THEN FinalizedAt(i) ELSE Len(input) + 1

\* the segment points to the Key and the Map of the most recent KEY and MAP
\* lines before line p, or to nothing when there is no such line
RefersToLatest(seg, p) ==
    /\ seg.key = LastBefore(p, IsKeyLine)
    /\ seg.init_section = LastBefore(p, IsMapLine)
    /\ seg.key # 0 =>
         \E k \in 1..Len(data.keys) :
            /\ data.keys[k].h = seg.key
            /\ data.keys[k].method
                 = get_attr_str_unquoted(input[seg.key].val, "method")
            /\ data.keys[k].uri
                 = get_attr_str_unquoted(input[seg.key].val, "uri")
    /\ seg.init_section # 0 =>
         \E m \in 1..Len(data.segment_map) :
            /\ data.segment_map[m].h = seg.init_section
            /\ data.segment_map[m].uri
                 = get_attr_str_unquoted(input[seg.init_section].val, "uri")

\* C3 as stated: every segment of the list, the remnant included, refers to
\* the Key and Map of the most recent KEY / MAP line before the point where
\* it was appended, null exactly when there is none.
C3_EverySegmentHasLatestKeyAndMap ==
    \A i \in 1..Len(data.segments) :
        RefersToLatest(data.segments[i], AppendedAt(i))

\* C3 amended: every segment that a URI line finalized refers to the Key and
\* Map of the most recent KEY / MAP line before that URI line, null exactly
\* when there is none, and no later KEY / MAP line changes that (the formula
\* holds in every later state); the end-of-input remnant, appended without
\* being finalized, has null key and init_section.
C3_FinalizedSegmentHasLatestKeyAndMap ==
    /\ \A i \in 1..NumFinalized :
         RefersToLatest(data.segments[i], FinalizedAt(i))
    /\ HasRemnant =>
         /\ data.segments[Len(data.segments)].key = 0
         /\ data.segments[Len(data.segments)].init_section = 0

\* two segments under different keys, the first one keeping its key
C3_Witness ==
    /\ Len(data.segments) = 2
    /\ data.segments[1].key # 0
    /\ data.segments[2].key # 0
    /\ data.segments[1].key # data.segments[2].key
    /\ data.segments[2].uri # NULL

\* C4: a non-null seg.key is the address of a node of the keys list and a
\* non-null seg.init_section that of a node of the segment-map list; a Key of
\* a SESSION-KEY line is in the session-keys list only, is never the current
\* key and is never referred to by a segment.
C4_RefsPointIntoDocumentLists ==
    LET keys == {data.keys[k].h : k \in 1..Len(data.keys)}
        maps == {data.segment_map[m].h : m \in 1..Len(data.segment_map)}
        session == {data.session_keys[k].h : k \in 1..Len(data.session_keys)}
        current == IF state.current_segment = <<>> THEN <<>>
                   ELSE state.current_segment
        segs == data.segments \o (IF pc = "done" THEN <<>> ELSE current)
    IN /\ \A i \in 1..Len(segs) :
            /\ segs[i].key # 0 => segs[i].key \in keys
            /\ segs[i].init_section # 0 => segs[i].init_section \in maps
            /\ segs[i].key \notin session
       /\ state.current_key # 0 => state.current_key \in keys
       /\ state.current_map # 0 => state.current_map \in maps
       /\ Addresses(data.session_keys) = LinesOf("SESSION-KEY")
       /\ session \cap keys = {}
       /\ state.current_key \notin session

\* a segment finalized after a KEY line and then a SESSION-KEY line: it
\* refers to the key, not to the session key
C4_Witness ==
    /\ Len(data.segments) = 1
    /\ data.segments[1].key # 0
    /\ data.segments[1].init_section # 0
    /\ \E k \in 1..Len(data.session_keys) :
          /\ data.session_keys[k].h > data.segments[1].key
          /\ data.session_keys[k].h < FinalizedAt(1)

(***************************************************************************)
(* SpecDateRange: DATERANGE lines and their consumers.                     *)
(***************************************************************************)

MaxLinesDateRange == 7

NextDateRange ==
    \/ DateRangeLine(MaxLinesDateRange)
    \/ PartLine(MaxLinesDateRange)
    \/ ExtinfLine(MaxLinesDateRange)
    \/ ByterangeLine(MaxLinesDateRange)
    \/ UriLine(MaxLinesDateRange, {"a.ts"})
    \/ EndOfInput

SpecDateRange == Init /\ [][NextDateRange]_vars

\* a line that takes the pending dateranges: a PART line, or a URI line that
\* finalizes a segment
IsConsumer(l) == l.tag = "PART" \/ (l.tag = "URI" /\ l.path = "segment")

\* the first consumer after line p, 0 if there is none
FirstConsumerAfter(p) ==
    IF \E j \in (p + 1)..Len(input) : IsConsumer(input[j])
    THEN CHOOSE j \in (p + 1)..Len(input) :
             /\ IsConsumer(input[j])
             /\ \A k \in (p + 1)..(j - 1) : ~IsConsumer(input[k])
    ELSE 0

\* every segment there is: those of the list and, while the scan goes on, the
\* in-progress one
AllSegments ==
    data.segments \o (IF pc = "done" THEN <<>> ELSE state.current_segment)

\* the dateranges lists of the result, each named by the line that filled it
\* (0 for the list of a segment no URI line finalized)
DateRangeLists ==
    {[at |-> IF i <= NumFinalized THEN FinalizedAt(i) ELSE 0,
      list |-> AllSegments[i].dateranges] : i \in 1..Len(AllSegments)}
    \cup
    UNION {{[at |-> AllSegments[i].parts[k].h,
             list |-> AllSegments[i].parts[k].dateranges]
               : k \in 1..Len(AllSegments[i].parts)}
             : i \in 1..Len(AllSegments)}

\* how many times the DateRange of line p occurs in the list
Occurrences(list, p) == Cardinality({k \in 1..Len(list) : list[k].h = p})

\* C5: the DateRange of a DATERANGE line is in at most one dateranges list of
\* the result, once: the list of the first consumer after the line (the next
\* PART line or the next URI line that finalizes a segment); it is in no
\* other list, in particular in none filled later.
C5_DateRangeGoesToFirstConsumerOnly ==
    \A p \in 1..Len(input) :
        input[p].tag = "DATERANGE" =>
            \A l \in DateRangeLists :
                Occurrences(l.list, p) =
                    IF l.at # 0 /\ l.at = FirstConsumerAfter(p) THEN 1 ELSE 0

\* a part took one DateRange and the segment finalized after it another one
C5_Witness ==
    /\ Len(data.segments) = 1
    /\ data.segments[1].uri # NULL
    /\ Len(data.segments[1].dateranges) = 1
    /\ Len(data.segments[1].parts) = 1
    /\ Len(data.segments[1].parts[1].dateranges) = 2

(***************************************************************************)
(* SpecAsset: ASSET lines, the lines that set cue_out, the segment path.   *)
(***************************************************************************)

MaxLinesAsset == 6

NextAsset ==
    \/ AssetLine(MaxLinesAsset)
    \/ CueOutLine(MaxLinesAsset)
    \/ CueSpanLine(MaxLinesAsset)
    \/ ExtinfLine(MaxLinesAsset)
    \/ UriLine(MaxLinesAsset, {"a.ts"})
    \/ EndOfInput

SpecAsset == Init /\ [][NextAsset]_vars

IsAssetLine(l) == l.tag = "ASSET"

\* the last ASSET line since the finalization before the i-th one, 0 if none
AssetLineFor(i) ==
    IF Between(PreviousFinalization(i), FinalizedAt(i), IsAssetLine)
    THEN LastBefore(FinalizedAt(i), IsAssetLine)
    ELSE 0

\* the segment no URI line finalized carries no asset metadata
RemnantHasNoAsset ==
    HasRemnant => data.segments[Len(data.segments)].asset_metadata = <<>>

\* C6 as stated: a finalized segment carries the attribute list of the last
\* ASSET line since the previous finalization and nothing when there was no
\* such line, so that each staged list is on the next finalized segment only.
C6_AssetOnNextSegmentOnly ==
    /\ \A i \in 1..NumFinalized :
         data.segments[i].asset_metadata =
             IF AssetLineFor(i) # 0 THEN input[AssetLineFor(i)].val ELSE <<>>
    /\ RemnantHasNoAsset

\* C6 amended: a finalized segment carries the attribute list of the last
\* ASSET line since the previous finalization; when there was no such line it
\* carries the list of the segment before it if that one was finalized with
\* cue_out set (it took a copy and the list stayed pending), and nothing
\* otherwise.  A staged list is thus on the next finalized segment and on the
\* following ones up to the first finalized with cue_out false, and on no
\* segment after that one.
C6_AssetStaysPendingUnderCueOut ==
    /\ \A i \in 1..NumFinalized :
         data.segments[i].asset_metadata =
             IF AssetLineFor(i) # 0 THEN input[AssetLineFor(i)].val
             ELSE IF i > 1 /\ data.segments[i - 1].cue_out
                  THEN data.segments[i - 1].asset_metadata
                  ELSE <<>>
    /\ RemnantHasNoAsset

\* one ASSET line whose list is on two segments, the first finalized with
\* cue_out set
C6_Witness ==
    /\ Len(LinesOf("ASSET")) = 1
    /\ Len(data.segments) = 2
    /\ data.segments[1].cue_out
    /\ data.segments[1].asset_metadata # <<>>
    /\ data.segments[2].asset_metadata = data.segments[1].asset_metadata
    /\ data.segments[2].uri # NULL

(***************************************************************************)
(* SpecSpan: cue-out spans, with and without CUE-OUT-CONT lines.           *)
(***************************************************************************)

MaxLinesSpan == 7

NextSpan ==
    \/ CueOutLine(MaxLinesSpan)
    \/ CueOutContLine(MaxLinesSpan)
    \/ CueInLine(MaxLinesSpan)
    \/ ExtinfLine(MaxLinesSpan)
    \/ UriLine(MaxLinesSpan, {"a.ts"})
    \/ EndOfInput

SpecSpan == Init /\ [][NextSpan]_vars

IsCueOutLine(l) == l.tag = "CUE-OUT"

IsCueInLine(l) == l.tag = "CUE-IN"

\* the four SCTE-35 strings of a segment, and those pending on the state
Quartet(seg) ==
    <<seg.scte35, seg.oatcls_scte35, seg.scte35_duration,
      seg.scte35_elapsedtime>>

PendingQuartet ==
    <<state.current_cue_out_scte35, state.current_cue_out_oatcls_scte35,
      state.current_cue_out_duration, state.current_cue_out_elapsedtime>>

NoQuartet == <<NULL, NULL, NULL, NULL>>

\* the i-th segment was finalized in the span opened by the last CUE-OUT line
\* before it: no CUE-IN line lies between that line and the previous
\* finalization (a CUE-IN line after the previous finalization makes the
\* segment the one that follows the CUE-IN, the last of the span)
InSpan(i) ==
    LET c == LastBefore(FinalizedAt(i), IsCueOutLine) IN
    /\ c # 0
    /\ \A j \in (c + 1)..PreviousFinalization(i) : ~IsCueInLine(input[j])

\* the i-th segment is in the span and the span's CUE-IN has not come yet
StrictlyInSpan(i) ==
    /\ InSpan(i)
    /\ ~Between(LastBefore(FinalizedAt(i), IsCueOutLine), FinalizedAt(i),
                IsCueInLine)

\* C7: every segment finalized after a CUE-OUT line, up to and including the
\* one that follows the matching CUE-IN line, carries the staged SCTE-35
\* payload (every CUE-OUT line of the model stages a duration), and every
\* segment strictly inside the span has cue_out set, with or without
\* CUE-OUT-CONT lines in between.
C7_SpanSegmentsCarryPayload ==
    \A i \in 1..NumFinalized :
        /\ InSpan(i) => data.segments[i].scte35_duration # NULL
        /\ StrictlyInSpan(i) => data.segments[i].cue_out

(***************************************************************************)
(* SpecCue: every line that touches the cue flags or the SCTE-35 strings.  *)
(***************************************************************************)

MaxLinesCue == 6

NextCue ==
    \/ CueOutLine(MaxLinesCue)
    \/ CueOutContLine(MaxLinesCue)
    \/ CueSpanLine(MaxLinesCue)
    \/ CueInLine(MaxLinesCue)
    \/ OatclsLine(MaxLinesCue)
    \/ ExtinfLine(MaxLinesCue)
    \/ UriLine(MaxLinesCue, {"a.ts"})
    \/ EndOfInput

SpecCue == Init /\ [][NextCue]_vars

SetsCueOut(l) == l.tag \in {"CUE-OUT", "CUE-OUT-CONT", "CUE-SPAN"}

\* C8: cue_out and cue_out_start are popped by each finalization: a finalized
\* segment has cue_out_start exactly when a CUE-OUT line occurred since the
\* previous finalization (so only the first segment after a CUE-OUT line has
\* it, and CUE-OUT-CONT / CUE-SPAN never set it), and it has cue_out exactly
\* when a CUE-OUT, CUE-OUT-CONT or CUE-SPAN line occurred since then.
C8_CueOutFlagsArePerSegment ==
    /\ \A i \in 1..NumFinalized :
         /\ data.segments[i].cue_out_start
              <=> Between(PreviousFinalization(i), FinalizedAt(i),
                          IsCueOutLine)
         /\ data.segments[i].cue_out
              <=> Between(PreviousFinalization(i), FinalizedAt(i), SetsCueOut)
    /\ HasRemnant =>
         /\ ~data.segments[Len(data.segments)].cue_out
         /\ ~data.segments[Len(data.segments)].cue_out_start

\* a CUE-OUT line, a segment, a CUE-OUT-CONT or CUE-SPAN line, a segment: the
\* first one starts the span, the second one is in it without starting it
C8_Witness ==
    /\ Len(data.segments) = 2
    /\ data.segments[1].cue_out_start
    /\ data.segments[1].cue_out
    /\ data.segments[2].cue_out
    /\ ~data.segments[2].cue_out_start
    /\ data.segments[2].uri # NULL

\* a line that stages one of the SCTE-35 strings
StagesQuartet(l) == l.tag \in {"CUE-OUT", "CUE-OUT-CONT", "OATCLS-SCTE35"}

\* C9: a segment finalized with cue_in set has cue_out false and took the
\* pending quartet by move: right after its finalization the four pending
\* strings of the state are null, and a later segment has the four strings
\* null unless a line staged one of them after that finalization.
C9_CueInMovesQuartet ==
    \A i \in 1..NumFinalized :
        data.segments[i].cue_in =>
            /\ ~data.segments[i].cue_out
            /\ Len(input) = FinalizedAt(i) => PendingQuartet = NoQuartet
            /\ \A j \in (i + 1)..NumFinalized :
                  ~Between(FinalizedAt(i), FinalizedAt(j), StagesQuartet)
                      => Quartet(data.segments[j]) = NoQuartet

(***************************************************************************)
(* SpecOneShot: the one-shot flags, PART lines and the segment path.       *)
(***************************************************************************)

MaxLinesOneShot == 6

NextOneShot ==
    \/ DiscontinuityLine(MaxLinesOneShot)
    \/ GapLine(MaxLinesOneShot)
    \/ BlackoutLine(MaxLinesOneShot)
    \/ CueInLine(MaxLinesOneShot)
    \/ PartLine(MaxLinesOneShot)
    \/ ExtinfLine(MaxLinesOneShot)
    \/ UriLine(MaxLinesOneShot, {"a.ts"})
    \/ EndOfInput

SpecOneShot == Init /\ [][NextOneShot]_vars

IsDiscontinuityLine(l) == l.tag = "DISCONTINUITY"

IsGapLine(l) == l.tag = "GAP"

IsBlackoutLine(l) == l.tag = "BLACKOUT"

IsPartLine(l) == l.tag = "PART"

\* a GAP line strictly between lines p and q that no PART line follows
\* before line q
UnconsumedGap(p, q) ==
    \E g \in (p + 1)..(q - 1) :
        /\ IsGapLine(input[g])
        /\ \A k \in (g + 1)..(q - 1) : ~IsPartLine(input[k])

\* what BLACKOUT lines between lines p and q leave: the text after the ':' of
\* the last one, the marker when it has no ':', null when there is no line
BlackoutBetween(p, q) ==
    IF Between(p, q, IsBlackoutLine)
    THEN LET b == input[LastBefore(q, IsBlackoutLine)].val IN
         IF b = NULL THEN "__BLACKOUT_TRUE__" ELSE b
    ELSE NULL

\* C10: a finalized segment has discontinuity / cue_in / blackout exactly
\* when the tag occurred since the previous finalization, and gap_tag exactly
\* when a GAP line occurred since then that no PART line took before the
\* URI line; so each flag is on the next finalized segment only.
C10_OneShotFlagsGoToNextSegment ==
    /\ \A i \in 1..NumFinalized :
         LET p == PreviousFinalization(i)
             q == FinalizedAt(i)
             seg == data.segments[i]
         IN /\ seg.discontinuity <=> Between(p, q, IsDiscontinuityLine)
            /\ seg.cue_in <=> Between(p, q, IsCueInLine)
            /\ seg.gap_tag <=> UnconsumedGap(p, q)
            /\ seg.blackout = BlackoutBetween(p, q)
    /\ HasRemnant =>
         LET seg == data.segments[Len(data.segments)]
         IN /\ ~seg.discontinuity /\ ~seg.cue_in /\ ~seg.gap_tag
            /\ seg.blackout = NULL

\* a segment with the flags of its tags, then a segment without any
C10_Witness ==
    /\ Len(data.segments) = 2
    /\ data.segments[1].discontinuity
    /\ data.segments[1].blackout # NULL
    /\ ~data.segments[2].discontinuity
    /\ data.segments[2].blackout = NULL
    /\ data.segments[2].uri # NULL

(***************************************************************************)
(* SpecPath: the lines that decide what a URI line does.                   *)
(***************************************************************************)

MaxLinesPath == 6

NextPath ==
    \/ ExtinfLine(MaxLinesPath)
    \/ ByterangeLine(MaxLinesPath)
    \/ BitrateLine(MaxLinesPath)
    \/ PartLine(MaxLinesPath)
    \/ StreamInfLine(MaxLinesPath)
    \/ UriLine(MaxLinesPath, Uris)
    \/ EndOfInput

SpecPath == Init /\ [][NextPath]_vars

IsSegmentUri(l) == l.tag = "URI" /\ l.path = "segment"

\* a line whose handler makes sure an in-progress segment exists
CreatesSegment(l) == l.tag \in {"EXTINF", "BYTERANGE", "BITRATE", "PART"}

\* a line whose handler sets expect_segment
ExpectsSegment(l) == l.tag \in {"EXTINF", "BYTERANGE"}

\* the segment that the URI line u finalized
SegmentOf(u) ==
    data.segments[CHOOSE i \in 1..NumFinalized : FinalizedAt(i) = u]

\* the first line after line p that satisfies Test (there is one)
FirstAfter(p, Test(_)) ==
    CHOOSE j \in (p + 1)..Len(input) :
        /\ Test(input[j])
        /\ \A k \in (p + 1)..(j - 1) : ~Test(input[k])

\* C11 as stated: a URI line that comes while a segment is in progress (a
\* per-segment tag occurred since the last finalization) finalizes that
\* segment and is its uri.
C11_UriFinalizesInProgressSegment ==
    \A u \in 1..Len(input) :
        LET p == LastBefore(u, IsSegmentUri) IN
        (input[u].tag = "URI" /\ Between(p, u, CreatesSegment)) =>
            /\ input[u].path = "segment"
            /\ SegmentOf(u).uri = input[u].val
            /\ SegmentOf(u).h = FirstAfter(p, CreatesSegment)

\* C11 amended: a URI line finalizes a segment exactly when an EXTINF or
\* BYTERANGE line occurred since the last finalization; it then finalizes
\* the segment in progress, the one created by the first per-segment tag
\* since that finalization, and is its uri.  BITRATE and PART lines create
\* the segment without announcing it: a URI line that only they precede
\* leaves it in progress.
C11_UriFinalizesAnnouncedSegment ==
    \A u \in 1..Len(input) :
        LET p == LastBefore(u, IsSegmentUri) IN
        input[u].tag = "URI" =>
            /\ input[u].path = "segment" <=> Between(p, u, ExpectsSegment)
            /\ input[u].path = "segment" =>
                 /\ SegmentOf(u).uri = input[u].val
                 /\ SegmentOf(u).h = FirstAfter(p, CreatesSegment)
            /\ (input[u].path # "segment" /\ Len(input) = u
                  /\ Between(p, u, CreatesSegment) /\ pc = "scan") =>
                 /\ state.current_segment # <<>>
                 /\ state.current_segment[1].h = FirstAfter(p, CreatesSegment)

\* a BITRATE line created the segment, a URI line left it in progress, and
\* after an EXTINF line a second URI line finalized it
C11_Witness ==
    /\ Len(data.segments) = 1
    /\ data.segments[1].uri = "b.ts"
    /\ data.segments[1].bitrate = 800
    /\ \E u \in 1..Len(input) :
          /\ input[u].tag = "URI"
          /\ input[u].val = "a.ts"
          /\ input[u].path = "ignored"
          /\ data.segments[1].h < u

IsPlaylistUri(l) == l.tag = "URI" /\ l.path = "playlist"

IsStreamInfLine(l) == l.tag = "STREAM-INF"

\* the variants that the URI line u appended
VariantsOf(u) == {k \in 1..Len(data.playlists) : data.playlists[k].h = u}

\* C12: a URI line taken on the variant path appends exactly one Variant: its
\* uri is the line, its fields come from the most recent STREAM-INF line;
\* is_variant is set, and right after the line the staged stream_info is
\* empty and expect_playlist is false.
C12_VariantPerStreamInf ==
    \A u \in 1..Len(input) :
        IsPlaylistUri(input[u]) =>
            LET attrs == input[LastBefore(u, IsStreamInfLine)].val IN
            /\ Cardinality(VariantsOf(u)) = 1
            /\ \A k \in VariantsOf(u) :
                  /\ data.playlists[k].uri = input[u].val
                  /\ data.playlists[k].bandwidth
                       = get_attr_int(attrs, "bandwidth", 0)
            /\ data.is_variant
            /\ Len(input) = u =>
                  /\ state.stream_info = <<>>
                  /\ ~state.expect_playlist

\* C13: a URI line that comes with both expect_segment and expect_playlist
\* set (a STREAM-INF line since the last URI line of the variant path and an
\* EXTINF or BYTERANGE line since the last finalization) is finalized as a
\* segment with that uri, and no Variant is appended for it (the parser has
\* no error outcome: the line loop has no other exit than the end of input).
C13_SegmentPathWinsOverVariantPath ==
    \A u \in 1..Len(input) :
        (/\ input[u].tag = "URI"
         /\ Between(LastBefore(u, IsSegmentUri), u, ExpectsSegment)
         /\ Between(LastBefore(u, IsPlaylistUri), u, IsStreamInfLine)) =>
            /\ input[u].path = "segment"
            /\ SegmentOf(u).uri = input[u].val
            /\ VariantsOf(u) = {}

\* a STREAM-INF line with attributes, an EXTINF line, a URI line: one
\* segment, no variant
C13_Witness ==
    /\ Len(input) = 3
    /\ input[1].tag = "STREAM-INF" /\ input[1].val # <<>>
    /\ input[2].tag = "EXTINF"
    /\ Len(data.segments) = 1
    /\ data.segments[1].uri = "a.ts"
    /\ data.playlists = <<>>
    /\ data.is_variant

(***************************************************************************)
(* End of input (under Spec)                                               *)
(***************************************************************************)

\* nothing pending has been applied to the segment
NothingApplied(seg) ==
    /\ seg.uri = NULL
    /\ seg.key = 0 /\ seg.init_section = 0
    /\ seg.dateranges = <<>>
    /\ seg.program_date_time = NULL
    /\ ~seg.discontinuity /\ ~seg.gap_tag /\ seg.blackout = NULL
    /\ ~seg.cue_in /\ ~seg.cue_out /\ ~seg.cue_out_start
    /\ ~seg.cue_out_explicitly_duration
    /\ Quartet(seg) = NoQuartet
    /\ seg.asset_metadata = <<>>

\* C14: the step that ends the input changes the document only by appending
\* the in-progress segment, if there is one, as the last segment, exactly as
\* accumulated: its uri is null and nothing pending (key, map, dateranges,
\* program-date-time, cue and one-shot state) is applied to it.  Everything
\* else still pending is dropped without being attached to any record, and
\* the pending dateranges list is empty afterwards.
C14_EndOfInputAppendsRemnantAsIs ==
    [][(pc = "scan" /\ pc' = "done") =>
         /\ data' = [data EXCEPT !.segments =
                        IF state.current_segment # <<>>
                        THEN Append(@, state.current_segment[1]) ELSE @]
         /\ state.current_segment # <<>> =>
              NothingApplied(data'.segments[Len(data'.segments)])
         /\ state'.dateranges = <<>>]_vars

\* the input ended with a segment in progress while a key was current and a
\* DateRange was pending
C14_Witness ==
    /\ pc = "done"
    /\ Len(input) = 3
    /\ input[1].tag = "DATERANGE"
    /\ input[2].tag = "KEY"
    /\ input[3].tag = "EXTINF"
    /\ Len(data.segments) = 1
    /\ data.segments[1].uri = NULL
    /\ state.current_key # 0

(***************************************************************************)
(* SpecStray: lines that leave something pending, and stray URI lines.     *)
(***************************************************************************)

MaxLinesStray == 5

NextStray ==
    \/ DiscontinuityLine(MaxLinesStray)
    \/ KeyLine(MaxLinesStray)
    \/ DateRangeLine(MaxLinesStray)
    \/ CueOutLine(MaxLinesStray)
    \/ BitrateLine(MaxLinesStray)
    \/ ExtinfLine(MaxLinesStray)
    \/ UriLine(MaxLinesStray, {"a.ts"})
    \/ EndOfInput

SpecStray == Init /\ [][NextStray]_vars

\* the step consumes a line that does not start with '#'
UriStep ==
    /\ Len(input') = Len(input) + 1
    /\ input'[Len(input')].tag = "URI"

\* C16: a line that is not a tag, reached while neither expect_segment nor
\* expect_playlist is set, changes neither the document nor the parser state
\* (in-progress segment, pending one-shots and dateranges, cue state,
\* current key and map).
C16_StrayLineChangesNothing ==
    [][(UriStep /\ ~state.expect_segment /\ ~state.expect_playlist) =>
          (data' = data /\ state' = state)]_vars

\* a stray line came while a discontinuity, a key and a DateRange were
\* pending and a segment was in progress, and the segment finalized later
\* has them all
C16_Witness ==
    /\ Len(data.segments) = 1
    /\ data.segments[1].uri # NULL
    /\ data.segments[1].discontinuity
    /\ data.segments[1].key # 0
    /\ \E u \in 1..Len(input) :
          /\ input[u].tag = "URI" /\ input[u].path = "ignored"
          /\ data.segments[1].key < u
          /\ \E j \in 1..(u - 1) : input[j].tag = "DISCONTINUITY"

(***************************************************************************)
(* The bytes of the input.  An offset counts from 0, as a pointer          *)
(* difference does; mem holds the length bytes of the buffer and then the  *)
(* bytes that happen to lie behind it, up to the first NUL.                *)
(***************************************************************************)

\* F of the value of x: x is computed once, as a C local is, however
\* often F uses it
Bind(x, F(_)) == CHOOSE r \in {F(v) : v \in {x}} : TRUE

\* the bytes of s from offset `from` up to, not including, offset `to`
Mid(s, from, to) ==
    IF from >= to \/ from >= Len(s) THEN ""
    ELSE SubSeq(s, from + 1, IF to > Len(s) THEN Len(s) ELSE to)

\* *(s + p); the empty string is the NUL behind the memory
At(s, p) == Mid(s, p, p + 1)

\* the C string at s + p: it ends at the first NUL, not at the end of a line
CStr(s, p) == Mid(s, p, Len(s))

\* c == ' ' || c == '\t'
IsBlank(c) == c = " " \/ c = "\t"

\* while (p < end && (*p == ' ' || *p == '\t')) p++;
RECURSIVE skip_blanks(_, _, _)
skip_blanks(s, p, end) ==
    IF p < end /\ IsBlank(At(s, p)) THEN skip_blanks(s, p + 1, end) ELSE p

RECURSIVE find_eol(_, _, _)
find_eol(s, p, end) ==
    IF p < end /\ At(s, p) # "\n" /\ At(s, p) # "\r"
    THEN find_eol(s, p + 1, end) ELSE p

\* "Trim trailing whitespace" of the line of line_len bytes at s + p
RECURSIVE TrimTrailing(_, _, _)
TrimTrailing(s, p, line_len) ==
    IF line_len > 0 /\ At(s, p + line_len - 1) \in {" ", "\t", "\r"}
    THEN TrimTrailing(s, p, line_len - 1) ELSE line_len

\* val_end[-1] is a blank: the end of a token moved back over blanks
RECURSIVE TrimBlanks(_, _, _)
TrimBlanks(s, from, to) ==
    IF to > from /\ IsBlank(At(s, to - 1)) THEN TrimBlanks(s, from, to - 1)
    ELSE to

starts_with(line, prefix) ==
    Len(line) >= Len(prefix) /\ Mid(line, 0, Len(prefix)) = prefix

Upper == "ABCDEFGHIJKLMNOPQRSTUVWXYZ"
Lower == "abcdefghijklmnopqrstuvwxyz"

tolower(c) ==
    IF \E i \in 1..Len(Upper) : SubSeq(Upper, i, i) = c
    THEN LET i == CHOOSE i \in 1..Len(Upper) : SubSeq(Upper, i, i) = c
         IN SubSeq(Lower, i, i)
    ELSE c

\* for (char *s = ...; *s; s++) *s = tolower(*s);
RECURSIVE LowerCase(_)
LowerCase(s) ==
    IF Len(s) = 0 THEN "" ELSE tolower(SubSeq(s, 1, 1)) \o LowerCase(Tail(s))

RECURSIVE DashToUnderscoreAndLower(_)
DashToUnderscoreAndLower(s) ==
    IF Len(s) = 0 THEN ""
    ELSE (IF SubSeq(s, 1, 1) = "-" THEN "_" ELSE tolower(SubSeq(s, 1, 1)))
         \o DashToUnderscoreAndLower(Tail(s))

\* a normalization that lower-cases and leaves '-' as it is
normalize_attr_name_keeps_dash(name) ==
    LET n == LowerCase(name)
    IN Mid(n, 0, TrimBlanks(n, 0, Len(n)))

normalize_attr_name(name) ==
    LET n == DashToUnderscoreAndLower(name)
    IN Mid(n, 0, TrimBlanks(n, 0, Len(n)))

(***************************************************************************)
(* The dispatch of a tag line: the chain of starts_with tests, in the      *)
(* order of the source; the first test that succeeds names the handler.    *)
(***************************************************************************)

Tag(prefix, name) == [prefix |-> prefix, name |-> name]

TagTable ==
    << Tag("#EXTM3U", "EXTM3U"),
       Tag("#EXTINF:", "EXTINF"),
       Tag("#EXT-X-TARGETDURATION:", "TARGETDURATION"),
       Tag("#EXT-X-MEDIA-SEQUENCE:", "MEDIA-SEQUENCE"),
       Tag("#EXT-X-DISCONTINUITY-SEQUENCE:", "DISCONTINUITY-SEQUENCE"),
       Tag("#EXT-X-VERSION:", "VERSION"),
       Tag("#EXT-X-ALLOW-CACHE:", "ALLOW-CACHE"),
       Tag("#EXT-X-PLAYLIST-TYPE:", "PLAYLIST-TYPE"),
       Tag("#EXT-X-PROGRAM-DATE-TIME:", "PROGRAM-DATE-TIME"),
       Tag("#EXT-X-ENDLIST", "ENDLIST"),
       Tag("#EXT-X-I-FRAMES-ONLY", "I-FRAMES-ONLY"),
       Tag("#EXT-X-INDEPENDENT-SEGMENTS", "INDEPENDENT-SEGMENTS"),
       Tag("#EXT-X-IMAGES-ONLY", "IMAGES-ONLY"),
       Tag("#EXT-X-DISCONTINUITY", "DISCONTINUITY"),
       Tag("#EXT-X-GAP", "GAP"),
       Tag("#EXT-X-BLACKOUT", "BLACKOUT"),
       Tag("#EXT-X-CUE-IN", "CUE-IN"),
       Tag("#EXT-X-CUE-SPAN", "CUE-SPAN"),
       Tag("#EXT-X-CUE-OUT-CONT", "CUE-OUT-CONT"),
       Tag("#EXT-X-CUE-OUT", "CUE-OUT"),
       Tag("#EXT-OATCLS-SCTE35:", "OATCLS-SCTE35"),
       Tag("#EXT-X-ASSET:", "ASSET"),
       Tag("#EXT-X-KEY:", "KEY"),
       Tag("#EXT-X-SESSION-KEY:", "SESSION-KEY"),
       Tag("#EXT-X-MAP:", "MAP"),
       Tag("#EXT-X-BYTERANGE:", "BYTERANGE"),
       Tag("#EXT-X-BITRATE:", "BITRATE"),
       Tag("#EXT-X-DATERANGE:", "DATERANGE"),
       Tag("#EXT-X-STREAM-INF:", "STREAM-INF"),
       Tag("#EXT-X-I-FRAME-STREAM-INF:", "I-FRAME-STREAM-INF"),
       Tag("#EXT-X-IMAGE-STREAM-INF:", "IMAGE-STREAM-INF"),
       Tag("#EXT-X-MEDIA:", "MEDIA"),
       Tag("#EXT-X-START:", "START"),
       Tag("#EXT-X-SERVER-CONTROL:", "SERVER-CONTROL"),
       Tag("#EXT-X-PART-INF:", "PART-INF"),
       Tag("#EXT-X-SKIP:", "SKIP"),
       Tag("#EXT-X-RENDITION-REPORT:", "RENDITION-REPORT"),
       Tag("#EXT-X-SESSION-DATA:", "SESSION-DATA"),
       Tag("#EXT-X-PRELOAD-HINT:", "PRELOAD-HINT"),
       Tag("#EXT-X-CONTENT-STEERING:", "CONTENT-STEERING"),
       Tag("#EXT-X-TILES:", "TILES"),
       Tag("#EXT-X-PART:", "PART") >>

\* a chain of tests without the second test of the DISCONTINUITY branch
Matches_prefix_only(line, i) == starts_with(line, TagTable[i].prefix)

\* the i-th test of the chain
Matches(line, i) ==
    /\ starts_with(line, TagTable[i].prefix)
    /\ TagTable[i].name = "DISCONTINUITY"
         => ~starts_with(line, "#EXT-X-DISCONTINUITY-SEQUENCE")

\* the handler a line that starts with '#' is routed to; "UNKNOWN" when
\* every test fails ("Unknown tags are ignored (like comments)")
Dispatch(line) ==
    IF \E i \in 1..Len(TagTable) : Matches(line, i)
    THEN TagTable[CHOOSE i \in 1..Len(TagTable) :
                     /\ Matches(line, i)
                     /\ \A j \in 1..(i - 1) : ~Matches(line, j)].name
    ELSE "UNKNOWN"

(***************************************************************************)
(* parse_attributes.  line holds the len bytes of the attribute list and   *)
(* `after` is the byte behind them, which the lexer reads when it tests    *)
(* the byte at eq with eq == end.  One iteration of the loop takes the     *)
(* position p to the next one and adds at most one attribute.              *)
(***************************************************************************)

\* while (p < end && *p != c) p++;
RECURSIVE FindChar(_, _, _, _)
FindChar(s, p, end, c) ==
    IF p < end /\ At(s, p) # c THEN FindChar(s, p + 1, end, c) ELSE p

\* while (eq < end && *eq != '=' && *eq != ',') eq++;
RECURSIVE FindEqOrComma(_, _, _)
FindEqOrComma(s, p, end) ==
    IF p < end /\ At(s, p) # "=" /\ At(s, p) # ","
    THEN FindEqOrComma(s, p + 1, end) ELSE p

\* if (p < end) p++;
SkipOne(p, end) == IF p < end THEN p + 1 ELSE p

\* the bare-value branch: "No '=' found, this is a bare value"
LexBare(line, after, p, eq) ==
    LET val_end == TrimBlanks(line, p, eq)
        at_eq == IF eq >= Len(line) THEN after ELSE At(line, eq)
    IN [p |-> IF at_eq = "," THEN eq + 1 ELSE eq,
        new |-> IF val_end > p THEN <<Attr("", Mid(line, p, val_end))>>
                ELSE <<>>]

\* while (p < end && *p != '"' && *p != '\'') p++;
RECURSIVE FindAnyQuote(_, _, _)
FindAnyQuote(s, p, end) ==
    IF p < end /\ At(s, p) \notin {"\"", "'"}
    THEN FindAnyQuote(s, p + 1, end) ELSE p

\* a quoted value that ends at the next quote character of either kind
LexQuoted_any_quote(line, key, val_start) ==
    Bind(SkipOne(FindAnyQuote(line, val_start + 1, Len(line)), Len(line)),
         LAMBDA val_end :
      [p |-> SkipOne(FindChar(line, val_end, Len(line), ","), Len(line)),
       new |-> <<Attr(key, Mid(line, val_start, val_end))>>])

\* the branch of a key: the value keeps its quotes
LexQuoted(line, key, val_start) ==
    Bind(SkipOne(FindChar(line, val_start + 1, Len(line), At(line, val_start)),
                 Len(line)), LAMBDA val_end :
      [p |-> SkipOne(FindChar(line, val_end, Len(line), ","), Len(line)),
       new |-> <<Attr(key, Mid(line, val_start, val_end))>>])

\* an unquoted value with the blanks before the comma left in
LexUnquoted_keeps_blanks(line, key, val_start) ==
    Bind(FindChar(line, val_start, Len(line), ","), LAMBDA comma :
      [p |-> SkipOne(comma, Len(line)),
       new |-> <<Attr(key, Mid(line, val_start, comma))>>])

LexUnquoted(line, key, val_start) ==
    Bind(FindChar(line, val_start, Len(line), ","), LAMBDA comma :
      [p |-> SkipOne(comma, Len(line)),
       new |-> <<Attr(key, Mid(line, val_start,
                               TrimBlanks(line, val_start, comma)))>>])

LexKeyed(line, p, eq) ==
    Bind(normalize_attr_name(Mid(line, p, TrimBlanks(line, p, eq))), LAMBDA key :
    Bind(skip_blanks(line, eq + 1, Len(line)), LAMBDA val_start :
      IF val_start < Len(line) /\ At(line, val_start) \in {"\"", "'"}
      THEN LexQuoted(line, key, val_start)
      ELSE LexUnquoted(line, key, val_start)))

\* an iteration that leaves the position where it is on an empty token
LexIter_stays_on_empty_token(line, after, p0) ==
    Bind(skip_blanks(line, p0, Len(line)), LAMBDA p :
    Bind(FindEqOrComma(line, p, Len(line)), LAMBDA eq :
      IF p >= Len(line) THEN [p |-> p, new |-> <<>>]
      ELSE IF eq >= Len(line) \/ At(line, eq) = ","
      THEN [p |-> eq, new |-> <<>>]
      ELSE LexKeyed(line, p, eq)))

\* one iteration of while (p < end), entered with p0 < end
LexIter(line, after, p0) ==
    Bind(skip_blanks(line, p0, Len(line)), LAMBDA p :
    Bind(FindEqOrComma(line, p, Len(line)), LAMBDA eq :
      IF p >= Len(line) THEN [p |-> p, new |-> <<>>]
      ELSE IF eq >= Len(line) \/ At(line, eq) = ","
      THEN LexBare(line, after, p, eq)
      ELSE LexKeyed(line, p, eq)))

RECURSIVE LexRun(_, _, _, _)
LexRun(line, after, p, attrs) ==
    IF p < Len(line)
    THEN LET it == LexIter(line, after, p)
         IN LexRun(line, after, it.p, attrs \o it.new)
    ELSE attrs

parse_attributes(line, after) == LexRun(line, after, 0, <<>>)

(***************************************************************************)
(* The handlers of the playlist-level scalars and flags; p is the C        *)
(* string behind the tag name.                                             *)
(***************************************************************************)

handle_targetduration(d, s, p) == Out([d EXCEPT !.targetduration = atoi(p)], s)

handle_media_sequence(d, s, p) ==
    Out([d EXCEPT !.media_sequence = atoi(p), !.has_media_sequence = TRUE], s)

handle_discontinuity_sequence(d, s, p) ==
    Out([d EXCEPT !.discontinuity_sequence = atoi(p)], s)

handle_version(d, s, p) == Out([d EXCEPT !.version = atoi(p)], s)

handle_allow_cache(d, s, val) == Out([d EXCEPT !.allow_cache = LowerCase(val)], s)

handle_playlist_type(d, s, val) ==
    Out([d EXCEPT !.playlist_type = LowerCase(val)], s)

handle_endlist(d, s) == Out([d EXCEPT !.is_endlist = TRUE], s)

handle_i_frames_only(d, s) == Out([d EXCEPT !.is_i_frames_only = TRUE], s)

handle_independent_segments(d, s) ==
    Out([d EXCEPT !.is_independent_segments = TRUE], s)

handle_images_only(d, s) == Out([d EXCEPT !.is_images_only = TRUE], s)

(***************************************************************************)
(* One iteration of the line loop on the bytes under the cursor.           *)
(***************************************************************************)

\* the head of an iteration with a find_eol that only LF stops
LineAt_lf_only(c, cur) ==
    Bind(skip_blanks(c.mem, cur, c.length), LAMBDA start :
    Bind(FindChar(c.mem, start, c.length, "\n"), LAMBDA line_end :
    Bind(TrimTrailing(c.mem, start, line_end - start), LAMBDA line_len :
      [start |-> start, line_end |-> line_end, line_len |-> line_len,
       text |-> Mid(c.mem, start, start + line_len)])))

\* The head of an iteration: the leading blanks are skipped, the end of
\* the line is found and the trailing blanks and '\r' are trimmed.
LineAt(c, cur) ==
    Bind(skip_blanks(c.mem, cur, c.length), LAMBDA start :
    Bind(find_eol(c.mem, start, c.length), LAMBDA line_end :
    Bind(TrimTrailing(c.mem, start, line_end - start), LAMBDA line_len :
      [start |-> start, line_end |-> line_end, line_len |-> line_len,
       text |-> Mid(c.mem, start, start + line_len)])))

\* a loop that takes a '#' line no test of the chain accepts for a URI
Kind_unknown_tag_is_uri(c, L) ==
    IF L.start >= c.length THEN "break"
    ELSE IF L.line_len = 0 THEN "empty"
    ELSE IF At(c.mem, L.start) = "#" /\ Dispatch(L.text) # "UNKNOWN" THEN "tag"
    ELSE "uri"

\* the branch an iteration takes
Kind(c, L) ==
    IF L.start >= c.length THEN "break"
    ELSE IF L.line_len = 0 THEN "empty"
    ELSE IF At(c.mem, L.start) = "#" THEN "tag"
    ELSE "uri"

\* "Move to next line"
NextLine(c, L) ==
    LET p1 == IF L.line_end < c.length /\ At(c.mem, L.line_end) = "\r"
              THEN L.line_end + 1 ELSE L.line_end
    IN IF p1 < c.length /\ At(c.mem, p1) = "\n" THEN p1 + 1 ELSE p1

\* the handlers that call parse_attributes, and the ones that do not
AttrTags == {"KEY", "STREAM-INF"}

PlainTags ==
    {"EXTM3U", "UNKNOWN", "EXTINF", "TARGETDURATION", "MEDIA-SEQUENCE",
     "DISCONTINUITY-SEQUENCE", "VERSION", "ALLOW-CACHE", "PLAYLIST-TYPE",
     "PROGRAM-DATE-TIME", "ENDLIST", "I-FRAMES-ONLY", "INDEPENDENT-SEGMENTS",
     "IMAGES-ONLY", "DISCONTINUITY", "GAP", "CUE-IN", "CUE-SPAN",
     "BYTERANGE", "BITRATE"}

\* what handle_extinf reads: strtod runs on the C string at line + 8, the
\* title is looked for in the bytes of the line
ExtinfBody(c, L) ==
    LET p == L.start + 8
        end == L.start + L.line_len
        comma == FindChar(c.mem, p, end, ",")
    IN [duration |-> CStr(c.mem, p),
        title |-> IF comma < end
                  THEN Mid(c.mem, skip_blanks(c.mem, comma + 1, end), end)
                  ELSE NULL]

\* str_ndup(p, end - p) behind n bytes of tag name and the blanks after them
ValueBehind(c, L, n) ==
    LET end == L.start + L.line_len
    IN Mid(c.mem, skip_blanks(c.mem, L.start + n, end), end)

\* the call of the handler of a tag that does not call parse_attributes
HandlePlain(name, d, s, c, L, ln) ==
    CASE name \in {"EXTM3U", "UNKNOWN"} -> Out(d, s)
      [] name = "EXTINF" -> handle_extinf(d, s, ExtinfBody(c, L), ln)
      [] name = "TARGETDURATION" ->
           handle_targetduration(d, s, CStr(c.mem, L.start + 22))
      [] name = "MEDIA-SEQUENCE" ->
           handle_media_sequence(d, s, CStr(c.mem, L.start + 22))
      [] name = "DISCONTINUITY-SEQUENCE" ->
           handle_discontinuity_sequence(d, s, CStr(c.mem, L.start + 30))
      [] name = "VERSION" -> handle_version(d, s, CStr(c.mem, L.start + 15))
      [] name = "ALLOW-CACHE" -> handle_allow_cache(d, s, ValueBehind(c, L, 19))
      [] name = "PLAYLIST-TYPE" ->
           handle_playlist_type(d, s, ValueBehind(c, L, 21))
      [] name = "PROGRAM-DATE-TIME" ->
           handle_program_date_time(d, s, ValueBehind(c, L, 25))
      [] name = "ENDLIST" -> handle_endlist(d, s)
      [] name = "I-FRAMES-ONLY" -> handle_i_frames_only(d, s)
      [] name = "INDEPENDENT-SEGMENTS" -> handle_independent_segments(d, s)
      [] name = "IMAGES-ONLY" -> handle_images_only(d, s)
      [] name = "DISCONTINUITY" -> handle_discontinuity(d, s)
      [] name = "GAP" -> handle_gap(d, s)
      [] name = "CUE-IN" -> handle_cue_in(d, s)
      [] name = "CUE-SPAN" -> handle_cue_span(d, s)
      [] name = "BYTERANGE" ->
           handle_byterange(d, s, Mid(c.mem, L.start + 17,
                                      L.start + L.line_len), ln)
      [] name = "BITRATE" ->
           handle_bitrate(d, s, CStr(c.mem, L.start + 15), ln)

\* the bytes a handler hands to parse_attributes: line + n, len - n
Params(c, L, name) ==
    Mid(c.mem, L.start + (IF name = "KEY" THEN 11 ELSE 18),
        L.start + L.line_len)

\* the call of a handler behind its call of parse_attributes
HandleAttrs(name, d, s, attrs, ln) ==
    CASE name = "KEY" -> handle_key(d, s, attrs, ln)
      [] name = "STREAM-INF" -> handle_stream_inf(d, s, attrs)

handle_part_inf(d, s, attrs) ==
    Out([d EXCEPT !.part_inf_part_target = get_attr_double(attrs, "part_target", 0),
                  !.has_part_inf = TRUE], s)

\* the handlers that find their attribute list themselves
OwnParseTags == {"CUE-OUT-CONT", "CUE-OUT", "MEDIA", "PART-INF", "PART"}

\* "Check for DURATION keyword": the bytes of the line hold DURATION or
\* duration
HasDurationKeyword(text) ==
    /\ Len(text) > 12
    /\ \E i \in 0..(Len(text) - 8) :
          Mid(text, i, i + 8) \in {"DURATION", "duration"}

\* parse_attributes on the bytes behind the n-th byte of the line
ParamsFrom(c, L, n) ==
    parse_attributes(Mid(L.text, n, Len(L.text)), At(c.mem, L.start + L.line_len))

\* the call of one of these handlers; colon is memchr(line, ':', len), the
\* length of the line when there is none
HandleOwn(name, d, s, c, L, ln) ==
    LET colon == FindChar(L.text, 0, Len(L.text), ":") IN
    CASE name = "CUE-OUT" ->
           handle_cue_out(d, s, HasDurationKeyword(L.text),
                          IF colon < Len(L.text) - 1
                          THEN ParamsFrom(c, L, colon + 1) ELSE <<>>)
      [] name = "CUE-OUT-CONT" ->
           handle_cue_out_cont(d, s, IF colon < Len(L.text)
                                     THEN ParamsFrom(c, L, colon + 1) ELSE <<>>)
      [] name = "MEDIA" -> handle_media(d, s, ParamsFrom(c, L, 13), ln)
      [] name = "PART-INF" -> handle_part_inf(d, s, ParamsFrom(c, L, 16))
      [] name = "PART" -> handle_part(d, s, ParamsFrom(c, L, 12), ln)

\* The loop as a function: st holds the lines seen, the document, the
\* parser state and the cursor.
Logged(st, tag, val, path, raw, out, cur) ==
    [input |-> Append(st.input,
                      [tag |-> tag, val |-> val, path |-> path, raw |-> raw]),
     data |-> out.data, state |-> out.state, cursor |-> cur]

IterateOn(c, st, L) ==
    LET kind == Kind(c, L)
        name == Dispatch(L.text)
        ln == Len(st.input) + 1
    IN CASE kind = "break" -> [st EXCEPT !.cursor = L.start]
         [] kind = "empty" -> [st EXCEPT !.cursor = L.line_end + 1]
         [] kind = "uri" ->
              Logged(st, "URI", L.text, UriPath(st.state), L.text,
                     uri_line(st.data, st.state, L.text, ln), NextLine(c, L))
         [] kind = "tag" /\ name \in PlainTags ->
              Logged(st, name, L.text, "tag", L.text,
                     HandlePlain(name, st.data, st.state, c, L, ln),
                     NextLine(c, L))
         [] kind = "tag" /\ name \in AttrTags ->
              LET attrs == parse_attributes(Params(c, L, name),
                                            At(c.mem, L.start + L.line_len))
              IN Logged(st, name, attrs, "tag", L.text,
                        HandleAttrs(name, st.data, st.state, attrs, ln),
                        NextLine(c, L))
         [] kind = "tag" /\ name \in OwnParseTags ->
              Logged(st, name, L.text, "tag", L.text,
                     HandleOwn(name, st.data, st.state, c, L, ln),
                     NextLine(c, L))

Iterate(c, st) == Bind(LineAt(c, st.cursor), LAMBDA L : IterateOn(c, st, L))

\* the loop run to its end on c, and the code behind it
RECURSIVE RunLoop(_, _)
RunLoop(c, st) ==
    IF st.cursor < c.length THEN RunLoop(c, Iterate(c, st))
    ELSE end_of_input(st.data, st.state).data

\* the document m3u8_parse returns for a content of one byte or more
Parse(c) ==
    RunLoop(c, [input |-> <<>>, data |-> ZeroData, state |-> ZeroState,
                cursor |-> 0])

(***************************************************************************)
(* The machine on bytes.  pc is "call" before the first statement of       *)
(* m3u8_parse and "null" when it has returned the null pointer.  A tag     *)
(* whose handler calls parse_attributes takes one step into the call, one  *)
(* step per iteration of the lexer, and one step for the rest of the       *)
(* handler and of the iteration.                                           *)
(***************************************************************************)

\* the texts made of at most n of the pieces
RECURSIVE Texts(_, _)
Texts(pieces, n) ==
    IF n = 0 THEN {""}
    ELSE {""} \cup {p \o t : p \in pieces, t \in Texts(pieces, n - 1)}

\* a buffer holding text, with the bytes slack behind it
Buffer(text, slack) == [mem |-> text \o slack, length |-> Len(text)]

InitBytes(contents) ==
    /\ input = <<>>
    /\ data = ZeroData
    /\ state = ZeroState
    /\ pc = "call"
    /\ content \in contents
    /\ cursor = 0
    /\ lex = NoLex
    /\ heap = NoHeap

Here == [input |-> input, data |-> data, state |-> state, cursor |-> cursor]

Become(st) ==
    /\ input' = st.input
    /\ data' = st.data
    /\ state' = st.state
    /\ cursor' = st.cursor

InLoop == pc = "scan" /\ ~lex.running /\ cursor < content.length

\* an entry that also rejects a text that does not start with #EXTM3U
Call_requires_header ==
    /\ pc = "call"
    /\ pc' = IF content.mem = NULL \/ content.length = 0
                 \/ ~starts_with(content.mem, "#EXTM3U")
             THEN "null" ELSE "scan"
    /\ UNCHANGED <<input, data, state, content, cursor, lex, heap>>

\* if (!content || length == 0) return NULL;  calloc, ParserState state = {0}
Call ==
    /\ pc = "call"
    /\ pc' = IF content.mem = NULL \/ content.length = 0 THEN "null" ELSE "scan"
    /\ UNCHANGED <<input, data, state, content, cursor, lex, heap>>

\* only blanks are left: if (cursor >= end) break;
BlankTail ==
    /\ InLoop
    /\ Kind(content, LineAt(content, cursor)) = "break"
    /\ \E st \in {Iterate(content, Here)} : Become(st)
    /\ UNCHANGED <<pc, content, lex, heap>>

\* if (line_len == 0) { cursor = line_end + 1; continue; }
EmptyLine ==
    /\ InLoop
    /\ Kind(content, LineAt(content, cursor)) = "empty"
    /\ \E st \in {Iterate(content, Here)} : Become(st)
    /\ UNCHANGED <<pc, content, lex, heap>>

\* a '#' line whose handler does not call parse_attributes, or none
PlainTagLine ==
    /\ InLoop
    /\ \E L \in {LineAt(content, cursor)} :
         /\ Kind(content, L) = "tag"
         /\ Dispatch(L.text) \in PlainTags
    /\ \E st \in {Iterate(content, Here)} : Become(st)
    /\ UNCHANGED <<pc, content, lex, heap>>

\* a line that does not start with '#'
UriLineBytes ==
    /\ InLoop
    /\ Kind(content, LineAt(content, cursor)) = "uri"
    /\ \E st \in {Iterate(content, Here)} : Become(st)
    /\ UNCHANGED <<pc, content, lex, heap>>

\* a '#' line whose handler calls parse_attributes: into the call
AttrTagLine ==
    /\ InLoop
    /\ \E L \in {LineAt(content, cursor)} :
         /\ Kind(content, L) = "tag"
         /\ Dispatch(L.text) \in AttrTags
         /\ lex' = [line |-> Params(content, L, Dispatch(L.text)),
                    after |-> At(content.mem, L.start + L.line_len),
                    p |-> 0, attrs |-> <<>>, running |-> TRUE]
    /\ UNCHANGED <<input, data, state, pc, content, cursor, heap>>

\* one iteration of the loop of parse_attributes
LexStep ==
    /\ lex.running
    /\ lex.p < Len(lex.line)
    /\ \E it \in {LexIter(lex.line, lex.after, lex.p)} :
         lex' = [lex EXCEPT !.p = it.p, !.attrs = @ \o it.new]
    /\ UNCHANGED <<input, data, state, pc, content, cursor, heap>>

\* return head; the rest of the handler; "Move to next line"
LexReturn ==
    /\ lex.running
    /\ lex.p >= Len(lex.line)
    /\ \E L \in {LineAt(content, cursor)} :
         \E st \in {Logged(Here, Dispatch(L.text), lex.attrs, "tag", L.text,
                            HandleAttrs(Dispatch(L.text), data, state,
                                        lex.attrs, lineno),
                            NextLine(content, L))} : Become(st)
    /\ lex' = NoLex
    /\ UNCHANGED <<pc, content, heap>>

\* the loop is left: "Handle partial segment at end", "Clean up state"
EndOfContent ==
    /\ pc = "scan"
    /\ ~lex.running
    /\ cursor >= content.length
    /\ LET out == end_of_input(data, state) IN
         /\ data' = out.data
         /\ state' = out.state
    /\ pc' = "done"
    /\ UNCHANGED <<input, content, cursor, lex, heap>>

NextBytes ==
    \/ Call \/ BlankTail \/ EmptyLine \/ PlainTagLine \/ UriLineBytes
    \/ AttrTagLine \/ LexStep \/ LexReturn \/ EndOfContent

(***************************************************************************)
(* Tag lines the chain knows and does not know.                            *)
(***************************************************************************)

MaxTagPieces == 3

TagPieces ==
    {"#EXTM3U\n", "#EXTINF:4,\n", "#EXT-X-GAP\n", "#EXT-X-GAPLESS\n",
     "#EXT-X-ENDLISTED\n", "#EXT-X-FOO:1\n", "#EXT-X-DISCONTINUITY-SEQUENCE\n",
     "# a\n", "a.ts\n", "#EXT-X-KEY:METHOD=NONE\n", "\n", " "}

SpecTags ==
    /\ InitBytes({Buffer(t, "") : t \in Texts(TagPieces, MaxTagPieces)})
    /\ [][NextBytes]_vars

\* the iteration that is taking place has a line that starts with '#'
HashStep ==
    /\ Len(input') = Len(input) + 1
    /\ At(input'[Len(input')].raw, 0) = "#"

\* the line the step is on
StepLine == input'[Len(input')].raw

\* the text of a line up to its first ':', or all of it
TagNameOf(line) == Mid(line, 0, FindChar(line, 0, Len(line), ":"))

\* the names of the tags the chain tests for
RecognizedNames == {TagNameOf(TagTable[i].prefix) : i \in 1..Len(TagTable)}

\* no test of the chain can succeed on the line
StartsWithNoTag(line) ==
    \A i \in 1..Len(TagTable) : ~starts_with(line, TagTable[i].prefix)

\* C15 as stated: a '#' line whose tag name (the text up to the first ':' or
\* the end of the line) is not exactly a recognized tag, and a #EXTM3U line,
\* changes neither the document nor the parser state.
C15_UnrecognizedNameChangesNothing ==
    [][(HashStep /\ (TagNameOf(StepLine) \notin RecognizedNames
                       \/ StepLine = "#EXTM3U"))
          => (data' = data /\ state' = state)]_vars

\* C15, amended: a '#' line that starts with none of the prefixes the chain
\* tests for, and a #EXTM3U line, changes neither the document nor the
\* parser state.  (The chain compares prefixes, so a line such as
\* #EXT-X-GAPLESS is handled as #EXT-X-GAP.)
C15_UnmatchedLineChangesNothing ==
    [][(HashStep /\ (StartsWithNoTag(StepLine) \/ StepLine = "#EXTM3U"))
          => (data' = data /\ state' = state)]_vars

\* An unknown tag between #EXTINF and the URI: the URI still finalizes the
\* segment the #EXTINF announced.
C15_Witness ==
    /\ Len(input) = 3
    /\ input[1].tag = "EXTINF"
    /\ input[2].raw = "#EXT-X-FOO:1"
    /\ input[3].tag = "URI" /\ input[3].path = "segment"
    /\ Len(data.segments) = 1 /\ data.segments[1].uri = "a.ts"

(***************************************************************************)
(* Scalar tags: what the number parsers read.                              *)
(***************************************************************************)

MaxScalarPieces == 3

ScalarPieces ==
    {"#EXT-X-VERSION:", "#EXT-X-TARGETDURATION:", "#EXT-X-MEDIA-SEQUENCE:",
     "#EXT-X-BITRATE:", "#EXTINF:", "7", "\n", " "}

\* the bytes behind the buffer: a NUL, or a digit and then a NUL
Slacks == {"", "7"}

NextPlain ==
    \/ Call \/ BlankTail \/ EmptyLine \/ PlainTagLine \/ UriLineBytes
    \/ EndOfContent

SpecScalar ==
    /\ InitBytes({Buffer(t, sl) : t \in Texts(ScalarPieces, MaxScalarPieces),
                                   sl \in Slacks})
    /\ [][NextPlain]_vars

\* the iteration that is taking place is on the line `line`, and the line
\* has its terminator in the buffer
StepOn(line) ==
    /\ Len(input') = Len(input) + 1
    /\ StepLine = line
    /\ LineAt(content, cursor).line_end < content.length

\* C18: a scalar tag with an empty body stores 0 whatever the next line
\* holds: the bytes of the following line never contribute to the value a
\* tag line stores.
C18_EmptyScalarStoresZero ==
    [][/\ StepOn("#EXT-X-VERSION:") => data'.version = 0
       /\ StepOn("#EXT-X-TARGETDURATION:") => data'.targetduration = 0
       /\ StepOn("#EXT-X-MEDIA-SEQUENCE:") => data'.media_sequence = 0
       /\ StepOn("#EXT-X-BITRATE:") => state'.current_segment[1].bitrate = 0
       /\ StepOn("#EXTINF:") => state'.current_segment[1].duration = 0]_vars

(***************************************************************************)
(* Line terminators.  The input is a sequence of logical lines, each       *)
(* written with one of the three terminators and with or without a         *)
(* whitespace-only line in front of it; content.lines remembers the        *)
(* logical lines.                                                          *)
(***************************************************************************)

MaxEolLines == 2

EolLines == {"#EXTINF:4,", "a.ts", "#EXT-X-VERSION:", "7"}

Terminators == {"\n", "\r\n", "\r"}

\* nothing, or a line of blanks with its own terminator
Gaps == {"", " \t\r\n"}

LineSeqs(n) == UNION {[1..k -> EolLines] : k \in 0..n}

\* the ways of writing the lines ls
RECURSIVE Renderings(_)
Renderings(ls) ==
    IF ls = <<>> THEN {""}
    ELSE {g \o Head(ls) \o t \o r :
            g \in Gaps, t \in Terminators, r \in Renderings(Tail(ls))}

\* the lines ls written with LF and nothing else
RECURSIVE Canonical(_)
Canonical(ls) ==
    IF ls = <<>> THEN "" ELSE Head(ls) \o "\n" \o Canonical(Tail(ls))

EolContents ==
    {[mem |-> r \o sl, length |-> Len(r), lines |-> ls] :
        <<ls, r, sl>> \in
          UNION {{<<ls, r, sl>> : r \in Renderings(ls), sl \in Slacks} :
                   ls \in LineSeqs(MaxEolLines) \ {<<>>}}}

NextEol == Call \/ EmptyLine \/ PlainTagLine \/ UriLineBytes \/ EndOfContent

SpecEol == InitBytes(EolContents) /\ [][NextEol]_vars

\* C17: however the logical lines are terminated (LF, CRLF or CR, line by
\* line) and whatever empty or whitespace-only lines stand between them,
\* the document returned is the document returned for the same lines
\* written with LF alone (in front of the same memory).
C17_LineEndingIndependence ==
    pc = "done" =>
      data = Parse([mem |-> Canonical(content.lines)
                              \o CStr(content.mem, content.length),
                    length |-> Len(Canonical(content.lines))])

\* #EXTINF ended by CR, a line of blanks, the URI ended by CRLF: one segment
C17_Witness ==
    /\ pc = "done"
    /\ content.lines = <<"#EXTINF:4,", "a.ts">>
    /\ content.mem = "#EXTINF:4,\r \t\r\na.ts\r\n"
    /\ Len(data.segments) = 1
    /\ data.segments[1].uri = "a.ts" /\ data.segments[1].duration = 4

(***************************************************************************)
(* What m3u8_parse returns: the null pointer or a document.                *)
(***************************************************************************)

MaxReturnPieces == 4

ReturnPieces ==
    {"#EXTM3U", "\n", " ", "# c", "#EXT-X-FOO:1", "x", "#EXTINF:4,",
     "#EXT-X-ENDLIST"}

\* content == NULL, with one length or another
NullContents == {[mem |-> NULL, length |-> n] : n \in {0, 1}}

SpecReturn ==
    /\ InitBytes(NullContents
                   \cup {Buffer(t, "") : t \in Texts(ReturnPieces, MaxReturnPieces)})
    /\ [][NextPlain]_vars

\* a line no handler and no finalizer is called for: #EXTM3U, or a line
\* that starts with none of the prefixes of the chain (a '#' line the
\* parser does not know, or a line of text nothing has announced)
Ignorable(l) == l.raw = "#EXTM3U" \/ StartsWithNoTag(l.raw)

MaxLexPieces == 3

LexPieces == {"#EXT-X-KEY:", "A=", ",,", "=\"x", "#", "\n "}

\* the byte behind the buffer, which the lexer reads at the end of a last
\* line that has no terminator: a NUL or a comma
LexSlacks == {"", ","}

\* the caller has no buffer yet
InitCaller ==
    /\ input = <<>>
    /\ data = ZeroData
    /\ state = ZeroState
    /\ pc = "caller"
    /\ content = NoContent
    /\ cursor = 0
    /\ lex = NoLex
    /\ heap = NoHeap

\* the caller fills a buffer and is about to call m3u8_parse on it
Caller ==
    /\ pc = "caller"
    /\ content' \in {Buffer(t, sl) : t \in Texts(LexPieces, MaxLexPieces),
                                       sl \in LexSlacks}
    /\ pc' = "call"
    /\ UNCHANGED <<input, data, state, cursor, lex, heap>>

NextTotal == Caller \/ NextBytes

SpecTotal == InitCaller /\ [][NextTotal]_vars /\ WF_vars(NextTotal)

\* a step that ends an iteration of the line loop and stays in the loop
IterationEnds == pc = "scan" /\ pc' = "scan" /\ ~lex'.running

\* a step that is an iteration of the loop of parse_attributes
LexIterates == lex.running /\ lex'.running

\* C20: m3u8_parse returns on every input; its cursor never moves backwards
\* and is strictly further on at the end of every iteration of the line
\* loop; the position of the attribute lexer is strictly further on after
\* every iteration of its loop, whatever the body (unterminated quotes,
\* empty keys, empty values, consecutive commas).
C20_Totality ==
    /\ [][/\ cursor' >= cursor
          /\ IterationEnds => cursor' > cursor
          /\ LexIterates => lex'.p > lex.p]_vars
    /\ <>(pc \in {"done", "null"})

\* a body with two commas, an empty key and a quote that is not closed
C20_Witness ==
    /\ pc = "done"
    /\ content.mem = "#EXT-X-KEY:,,=\"x"
    /\ Len(input) = 1
    /\ input[1].val = <<Attr("", "\"x")>>
    /\ Len(data.keys) = 1

(***************************************************************************)
(* The keys the lexer makes: one KEY line whose attribute list is made of  *)
(* names, separators and bytes that are neither.                           *)
(***************************************************************************)

MaxNamePieces == 4

NamePieces == {"A-b", "9", ".", " ", "=", ","}

NameContents ==
    {Buffer("#EXT-X-KEY:" \o body, "") :
        body \in Texts(NamePieces, MaxNamePieces)}

NextNames == Call \/ AttrTagLine \/ LexStep \/ LexReturn \/ EndOfContent

SpecNames == InitBytes(NameContents) /\ [][NextNames]_vars

\* every byte of s is one of the bytes of class
OnlyOf(s, class) ==
    \A i \in 1..Len(s) : \E j \in 1..Len(class) :
        SubSeq(s, i, i) = SubSeq(class, j, j)

\* no byte of s is one of the bytes of class
NoneOf(s, class) ==
    \A i \in 1..Len(s) : \A j \in 1..Len(class) :
        SubSeq(s, i, i) # SubSeq(class, j, j)

NormalClass == Lower \o "0123456789_"

\* the attributes the lexer has produced so far, each with the bytes of the
\* line it was made from: those of the running call and those of the lines
\* behind
LexedAttrs ==
    {[attr |-> lex.attrs[i], body |-> lex.line] : i \in 1..Len(lex.attrs)}
      \cup UNION {{[attr |-> input[k].val[i], body |-> input[k].raw] :
                      i \in 1..Len(input[k].val)} :
                    k \in {k \in 1..Len(input) : input[k].tag \in AttrTags}}

\* C21: for every attribute-list body, every character of every normalized
\* key produced by the lexer is in [a-z0-9_].
C21_KeysAreLowerAlnumUnderscore ==
    \A a \in LexedAttrs : OnlyOf(a.attr.key, NormalClass)

\* C21 amended: a normalized key has no upper-case ASCII letter, no '-',
\* no '=' and no ',', and no blank at either end; any other byte of the
\* name stays as it is, so a key is within [a-z0-9_] when its line has only
\* bytes of [A-Za-z0-9_-] besides '=', ',' and the '#' and ':' of the tag.
C21_KeysAreLowerCasedDashFree ==
    \A a \in LexedAttrs :
        LET key == a.attr.key IN
        /\ NoneOf(key, Upper \o "-=,")
        /\ key # "" => /\ ~IsBlank(SubSeq(key, 1, 1))
                       /\ ~IsBlank(SubSeq(key, Len(key), Len(key)))
        /\ OnlyOf(a.body, Upper \o NormalClass \o "-=,#:") =>
              OnlyOf(key, NormalClass)

\* the name A-b. before '=': its key keeps the '.'
C21_Witness ==
    /\ pc = "done"
    /\ content.mem = "#EXT-X-KEY:A-b.=9"
    /\ input[1].val = <<Attr("a_b.", "9")>>

(***************************************************************************)
(* SpecQuote: the records built from attribute lists whose values are      *)
(* quoted in every way: a pair of double or single quotes, an empty pair,  *)
(* a pair that does not match, a lone quote, no quote.                     *)
(***************************************************************************)

MaxLinesQuote == 2

QuoteValues == {"\"v\"", "'v'", "\"\"", "\"v'", "\"", "v"}

\* the attribute list that gives the value v to each of the keys
AllWith(keys, v) == [i \in 1..Len(keys) |-> Attr(keys[i], v)]

KeyFields == <<"method", "uri", "iv", "keyformat", "keyformatversions">>

MapFields == <<"uri", "byterange">>

VariantQFields ==
    <<"codecs", "video", "audio", "subtitles", "video_range", "pathway_id",
      "stable_variant_id">>

VariantRFields ==
    <<"resolution", "hdcp_level", "req_video_layout", "closed_captions">>

DateRangeFields == <<"id", "x_a", "scte35_out", "x_b">>

QuotedLine(tag, fields, Handler(_, _, _, _)) ==
    /\ Scanning(MaxLinesQuote)
    /\ \E v \in QuoteValues :
         LET a == AllWith(fields, v) IN
         Consume(tag, a, "tag", Handler(data, state, a, lineno))

QuotedKeyLine == QuotedLine("KEY", KeyFields, handle_key)

QuotedSessionKeyLine ==
    QuotedLine("SESSION-KEY", KeyFields, handle_session_key)

QuotedMapLine == QuotedLine("MAP", MapFields, handle_map)

QuotedDateRangeLine ==
    QuotedLine("DATERANGE", DateRangeFields, handle_daterange)

QuotedStreamInfLine ==
    QuotedLine("STREAM-INF", VariantQFields \o VariantRFields,
               LAMBDA d, s, a, ln : handle_stream_inf(d, s, a))

NextQuote ==
    \/ QuotedKeyLine \/ QuotedSessionKeyLine \/ QuotedMapLine
    \/ QuotedDateRangeLine \/ QuotedStreamInfLine
    \/ UriLine(MaxLinesQuote, {"a.m3u8"})
    \/ EndOfInput

SpecQuote == Init /\ [][NextQuote]_vars

\* v without its first and last byte when it has two bytes or more and they
\* are the same quote
StripPair(v) ==
    IF /\ Len(v) >= 2
       /\ SubSeq(v, 1, 1) \in {"\"", "'"}
       /\ SubSeq(v, Len(v), Len(v)) = SubSeq(v, 1, 1)
    THEN SubSeq(v, 2, Len(v) - 1)
    ELSE v

\* the raw value of the attribute of that name on line ln
RawValue(ln, name) ==
    LET a == input[ln].val
    IN a[CHOOSE i \in 1..Len(a) : a[i].key = name].value

\* the fields of a record are what F makes of the raw values
FieldsAre(rec, ln, fields, F(_)) ==
    \A i \in 1..Len(fields) :
        LET got == CASE fields[i] = "method" -> rec.method
                     [] fields[i] = "uri" -> rec.uri
                     [] fields[i] = "iv" -> rec.iv
                     [] fields[i] = "keyformat" -> rec.keyformat
                     [] fields[i] = "keyformatversions" -> rec.keyformatversions
                     [] fields[i] = "byterange" -> rec.byterange
                     [] fields[i] = "codecs" -> rec.codecs
                     [] fields[i] = "video" -> rec.video
                     [] fields[i] = "audio" -> rec.audio
                     [] fields[i] = "subtitles" -> rec.subtitles
                     [] fields[i] = "video_range" -> rec.video_range
                     [] fields[i] = "pathway_id" -> rec.pathway_id
                     [] fields[i] = "stable_variant_id" -> rec.stable_variant_id
                     [] fields[i] = "resolution" -> rec.resolution
                     [] fields[i] = "hdcp_level" -> rec.hdcp_level
                     [] fields[i] = "req_video_layout" -> rec.req_video_layout
                     [] fields[i] = "closed_captions" -> rec.closed_captions
        IN got = F(RawValue(ln, fields[i]))

Same(v) == v

\* C22: the quoting matrix.  A field marked Q is the raw attribute value
\* without its surrounding pair of quotes when the raw value has two bytes
\* or more and starts and ends with the same quote (" or '), and the raw
\* value otherwise; a field marked R is the raw value, quotes included.  The
\* five fields of a Key or SessionKey and uri and byterange of a Map are Q;
\* codecs, video, audio, subtitles, video_range, pathway_id and
\* stable_variant_id of a Variant are Q; resolution, hdcp_level,
\* req_video_layout and closed_captions of a Variant are R; the X-*
\* attributes of a DateRange keep their raw values.
C22_QuotingMatrix ==
    /\ \A k \in 1..Len(data.keys) :
          FieldsAre(data.keys[k], data.keys[k].h, KeyFields, StripPair)
    /\ \A k \in 1..Len(data.session_keys) :
          FieldsAre(data.session_keys[k], data.session_keys[k].h, KeyFields,
                    StripPair)
    /\ \A k \in 1..Len(data.segment_map) :
          FieldsAre(data.segment_map[k], data.segment_map[k].h, MapFields,
                    StripPair)
    /\ \A k \in 1..Len(data.playlists) :
          LET pl == data.playlists[k]
              ln == LastBefore(pl.h, IsStreamInfLine)
          IN /\ FieldsAre(pl, ln, VariantQFields, StripPair)
             /\ FieldsAre(pl, ln, VariantRFields, Same)
    /\ \A k \in 1..Len(state.dateranges) :
          LET dr == state.dateranges[k] IN
          /\ Len(dr.x_attrs) = 2
          /\ \A i \in 1..2 :
                /\ dr.x_attrs[i].key \in {"x_a", "x_b"}
                /\ dr.x_attrs[i].value = RawValue(dr.h, dr.x_attrs[i].key)

\* a Variant built from values in double quotes: codecs without them,
\* resolution with them
C22_Witness ==
    /\ Len(data.playlists) = 1
    /\ data.playlists[1].codecs = "v"
    /\ data.playlists[1].audio = "v"
    /\ data.playlists[1].resolution = "\"v\""
    /\ data.playlists[1].closed_captions = "\"v\""

(***************************************************************************)
(* The bandwidth of a Variant, from the bytes of the STREAM-INF line.      *)
(***************************************************************************)

MaxBandwidthPieces == 4

BandwidthPieces ==
    {"#EXT-X-STREAM-INF:BANDWIDTH=", "5000000.5", "\"5000000.5\"",
     "\nhi.m3u8", ",", "7"}

BandwidthContents ==
    {Buffer(t, "") : t \in Texts(BandwidthPieces, MaxBandwidthPieces)}

NextBandwidth ==
    \/ Call \/ EmptyLine \/ UriLineBytes
    \/ AttrTagLine \/ LexStep \/ LexReturn \/ EndOfContent

SpecBandwidth == InitBytes(BandwidthContents) /\ [][NextBandwidth]_vars

\* C25: a Variant whose STREAM-INF line has a BANDWIDTH with a fractional
\* part, bare (BANDWIDTH=5000000.5) or in quotes (BANDWIDTH="5000000.5"),
\* has the bandwidth 5000000.
C25_FractionalBandwidthIsTruncated ==
    \A k \in 1..Len(data.playlists) :
        LET pl == data.playlists[k]
            attrs == input[LastBefore(pl.h, IsStreamInfLine)].val
            raw == get_attr(attrs, "bandwidth")
        IN (raw # NULL /\ StripPair(raw) = "5000000.5") =>
               pl.bandwidth = 5000000

(***************************************************************************)
(* Ownership.  The specifications below follow the allocations: the        *)
(* caller parses a text and then hands the document to m3u8_free.          *)
(***************************************************************************)

Line(tag, val) == [tag |-> tag, val |-> val]

\* the handler the chain of m3u8_parse calls on a line of that tag
HandleLine(tag, val, d, s, ln) ==
    CASE tag = "EXTINF" -> handle_extinf(d, s, val, ln)
      [] tag = "PART" -> handle_part(d, s, val, ln)
      [] tag = "GAP" -> handle_gap(d, s)
      [] tag = "KEY" -> handle_key(d, s, val, ln)
      [] tag = "MAP" -> handle_map(d, s, val, ln)
      [] tag = "DATERANGE" -> handle_daterange(d, s, val, ln)
      [] tag = "ASSET" -> handle_asset(d, s, val)
      [] tag = "PROGRAM-DATE-TIME" -> handle_program_date_time(d, s, val)
      [] tag = "BLACKOUT" -> handle_blackout(d, s, val)
      [] tag = "CUE-OUT" -> handle_cue_out(d, s, val.explicit, val.attrs)
      [] tag = "CUE-OUT-CONT" -> handle_cue_out_cont(d, s, val)
      [] tag = "CUE-IN" -> handle_cue_in(d, s)
      [] tag = "OATCLS-SCTE35" -> handle_oatcls_scte35(d, s, val)
      [] tag = "STREAM-INF" -> handle_stream_inf(d, s, val)
      [] tag = "I-FRAME-STREAM-INF" -> handle_i_frame_stream_inf(d, s, val, ln)
      [] tag = "IMAGE-STREAM-INF" -> handle_image_stream_inf(d, s, val, ln)
      [] tag = "ALLOW-CACHE" -> handle_allow_cache(d, s, val)
      [] tag = "PLAYLIST-TYPE" -> handle_playlist_type(d, s, val)
      [] tag = "URI" -> uri_line(d, s, val, ln)

\* an iteration of the line loop on one of the lines of a sequence
LineOf(lines, max) ==
    /\ Scanning(max)
    /\ \E i \in 1..Len(lines) :
         LET l == lines[i] IN
         Consume(l.tag, l.val, IF l.tag = "URI" THEN UriPath(state) ELSE "tag",
                 HandleLine(l.tag, l.val, data, state, lineno))

InitHeap ==
    /\ input = <<>>
    /\ data = ZeroData
    /\ state = ZeroState
    /\ pc = "scan"
    /\ content = NoContent
    /\ cursor = 0
    /\ lex = NoLex
    /\ heap = EmptyHeap

\* the caller's m3u8_free(data)
FreeDocument ==
    /\ pc = "done"
    /\ pc' = "freed"
    /\ heap' = Run(heap, m3u8_free_ops(data))
    /\ UNCHANGED <<input, data, state, content, cursor, lex>>

MaxLinesOwn == 5

OwnLines ==
    <<Line("KEY", <<Attr("method", "AES-128"), Attr("uri", "\"k1\"")>>),
     Line("MAP", <<Attr("uri", "\"init.mp4\"")>>),
     Line("EXTINF", [duration |-> "4", title |-> NULL]),
     Line("URI", "a.ts"),
     Line("DATERANGE", <<Attr("id", "\"d1\"")>>),
     Line("PART", <<Attr("uri", "\"p.ts\"")>>),
     Line("BLACKOUT", NULL),
     Line("CUE-OUT", [explicit |-> FALSE, attrs |-> <<Attr("", "30")>>])>>

OwnLine == LineOf(OwnLines, MaxLinesOwn)

NextOwn == OwnLine \/ EndOfInput \/ FreeDocument

SpecOwn == InitHeap /\ [][NextOwn]_vars

\* the segments there are: those of the document and the one in progress
Segments == data.segments \o state.current_segment

\* every list of dateranges there is, with the pending one
AllDateRangeLists ==
    <<state.dateranges>>
      \o Concat([i \in 1..Len(Segments) |->
                   <<Segments[i].dateranges>>
                     \o [j \in 1..Len(Segments[i].parts) |->
                           Segments[i].parts[j].dateranges]])

\* the places that hold a pointer to the live allocation h
Owners(h) == {p \in DOMAIN heap.at : heap.at[p] = h}

\* the lists of dateranges that hold the node allocated on line h
ListsWith(h) ==
    {i \in 1..Len(AllDateRangeLists) :
        \E k \in 1..Len(AllDateRangeLists[i]) : AllDateRangeLists[i][k].h = h}

MaxLinesLeak == 4

LeakLines ==
    <<Line("ALLOW-CACHE", "YES"),
      Line("PLAYLIST-TYPE", "VOD"),
      Line("PROGRAM-DATE-TIME", "2024-01-01T00:00:00Z"),
      Line("STREAM-INF", <<>>),
      Line("STREAM-INF", <<Attr("bandwidth", "5000000")>>),
      Line("EXTINF", [duration |-> "4", title |-> NULL]),
      Line("URI", "a.ts")>>

LeakLine == LineOf(LeakLines, MaxLinesLeak)

NextLeak == LeakLine \/ EndOfInput \/ FreeDocument

SpecLeak == InitHeap /\ [][NextLeak]_vars

Range(list) == {list[i] : i \in 1..Len(list)}

\* the allocations a traversal of the document reaches: its nodes, and what
\* the pointer fields of the document and of its segments point to
OwnedByDocument ==
    {Handle(0, "data")}
      \cup Range(Nodes(data.segments, "segment"))
      \cup Range(Nodes(data.playlists, "playlist"))
      \cup Range(Nodes(data.iframe_playlists, "iframe_playlist"))
      \cup Range(Nodes(data.image_playlists, "image_playlist"))
      \cup Range(Nodes(data.media, "media"))
      \cup Range(Nodes(data.keys, "key"))
      \cup Range(Nodes(data.session_keys, "session_key"))
      \cup Range(Nodes(data.segment_map, "map"))
      \cup Range(Nodes(data.rendition_reports, "rendition_report"))
      \cup Range(Nodes(data.session_data, "session_data"))
      \cup Range(Nodes(data.tiles, "tiles"))
      \cup UNION {Range(Nodes(seg.dateranges, "daterange"))
                    \cup Range(Nodes(seg.parts, "part"))
                    \cup UNION {Range(Nodes(part.dateranges, "daterange")) :
                                  part \in Range(seg.parts)} :
                  seg \in Range(data.segments)}
      \cup {heap.at[p] : p \in {p \in DOMAIN heap.at :
                \/ p.owner = "data"
                \/ /\ p.owner = "segment"
                   /\ \E i \in 1..Len(data.segments) : data.segments[i].h = p.n}}

\* C24: no leak.  When m3u8_parse has returned, every allocation made during
\* the call has been released or is owned by the returned document, and
\* after m3u8_free on the result none of them is live, whatever the input: repeated scalar tags (two #EXT-X-ALLOW-CACHE), a
\* #EXT-X-STREAM-INF with an empty attribute list followed by a URI.
C24_NoLeak ==
    /\ pc = "done" => heap.live \subseteq OwnedByDocument
    /\ pc = "freed" => heap.live = {}

(***************************************************************************)
(* SpecCopy: cue-out payloads and asset metadata on their way from the     *)
(* parser state to the segments.                                           *)
(***************************************************************************)

MaxLinesCopy == 6

CopyLines ==
    <<Line("OATCLS-SCTE35", "oat1"),
      Line("CUE-OUT", [explicit |-> TRUE,
                       attrs |-> <<Attr("duration", "30"), Attr("cue", "\"c1\"")>>]),
      Line("CUE-OUT-CONT", <<Attr("", "10/30"), Attr("scte35", "\"c2\"")>>),
      Line("ASSET", <<Attr("id", "a1")>>),
      Line("EXTINF", [duration |-> "4", title |-> NULL]),
      Line("URI", "a.ts")>>

CopyLine == LineOf(CopyLines, MaxLinesCopy)

NextCopy == CopyLine \/ EndOfInput \/ FreeDocument

SpecCopy == InitHeap /\ [][NextCopy]_vars

\* this step is a URI line that finalizes a segment
FinalizesSegment ==
    /\ Len(input') = Len(input) + 1
    /\ input'[Len(input')].tag = "URI"
    /\ input'[Len(input')].path = "segment"

\* the pointer at the place before the step is at the other place after it
Moved(from, to) ==
    /\ PointsTo(heap', to) = PointsTo(heap, from)
    /\ PointsTo(heap', from) = Nil

\* the place holds a fresh allocation after the step (none for a null
\* source) and the source place was left alone
Copied(from, to) ==
    /\ PointsTo(heap', from) = PointsTo(heap, from)
    /\ IF PointsTo(heap, from) = Nil
       THEN PointsTo(heap', to) = Nil
       ELSE /\ PointsTo(heap', to) \in heap'.live
            /\ PointsTo(heap', to) \notin heap.live \cup heap.freed

\* C26: copy-or-move at segment finalization.  Under cue_out the segment
\* gets copies of the four pending SCTE-35 strings and of the pending asset
\* metadata (equal values in fresh allocations) and the state keeps its
\* own; otherwise the segment gets the pending values themselves (the
\* state's pointers) and the state fields are null afterwards.
C26_CopyUnderCueOutElseMove ==
    [][FinalizesSegment =>
         LET seg == data'.segments[Len(data'.segments)]
             before == PendingQuartet
             after == <<state'.current_cue_out_scte35,
                        state'.current_cue_out_oatcls_scte35,
                        state'.current_cue_out_duration,
                        state'.current_cue_out_elapsedtime>>
         IN /\ Len(data'.segments) = Len(data.segments) + 1
            /\ Quartet(seg) = before
            /\ seg.asset_metadata = state.asset_metadata
            /\ IF state.cue_out
               THEN /\ after = before
                    /\ state'.asset_metadata = state.asset_metadata
                    /\ \A k \in 1..4 :
                          Copied(InState(Scte35Slots[k].pending),
                                 InSegment(seg.h, Scte35Slots[k].segment))
                    /\ Copied(InState("asset_metadata"),
                              InSegment(seg.h, "asset_metadata"))
               ELSE /\ after = NoQuartet
                    /\ state'.asset_metadata = <<>>
                    /\ \A k \in 1..4 :
                          Moved(InState(Scte35Slots[k].pending),
                                InSegment(seg.h, Scte35Slots[k].segment))
                    /\ Moved(InState("asset_metadata"),
                             InSegment(seg.h, "asset_metadata"))]_vars

\* the first segment was finalized under cue_out and got copies, the second
\* one got the state's own strings and list, and the state has none left
C26_Witness ==
    /\ Len(data.segments) = 2
    /\ data.segments[1].cue_out
    /\ ~data.segments[2].cue_out
    /\ Quartet(data.segments[1]) = Quartet(data.segments[2])
    /\ data.segments[1].scte35_duration = "30"
    /\ data.segments[1].asset_metadata = <<Attr("id", "a1")>>
    /\ data.segments[2].asset_metadata = <<Attr("id", "a1")>>
    /\ PointsTo(heap, InSegment(data.segments[1].h, "scte35_duration"))
         # PointsTo(heap, InSegment(data.segments[2].h, "scte35_duration"))
    /\ PointsTo(heap, InSegment(data.segments[2].h, "asset_metadata")) # Nil
    /\ PendingQuartet = NoQuartet
    /\ state.asset_metadata = <<>>

(***************************************************************************)
(* SpecDate: program date-times, segments and partial segments.            *)
(***************************************************************************)

MaxLinesDate == 5

DateLines ==
    <<Line("PROGRAM-DATE-TIME", "2024-01-01T00:00:00Z"),
      Line("PROGRAM-DATE-TIME", "2026-01-01T00:00:00Z"),
      Line("PROGRAM-DATE-TIME", ""),
      Line("EXTINF", [duration |-> "4", title |-> NULL]),
      Line("PART", <<Attr("uri", "\"p.ts\"")>>),
      Line("URI", "a.ts")>>

DateLine == LineOf(DateLines, MaxLinesDate)

NextDate == DateLine \/ EndOfInput

SpecDate == Init /\ [][NextDate]_vars

IsProgramDateTimeLine(l) == l.tag = "PROGRAM-DATE-TIME"

\* the value of the last #EXT-X-PROGRAM-DATE-TIME line strictly between
\* lines p and q, NULL if there is none
ProgramDateTimeBetween(p, q) ==
    IF Between(p, q, IsProgramDateTimeLine)
    THEN input[LastBefore(q, IsProgramDateTimeLine)].val
    ELSE NULL

\* C27: program date-time.  The document-level program_date_time is the
\* value of the first #EXT-X-PROGRAM-DATE-TIME line of the input, whatever
\* lines follow; the program_date_time of a finalized segment is the value of
\* the last such line since the previous finalization, null if there was
\* none, and after a finalization no value is staged.
C27_FirstForDocumentLastForSegment ==
    /\ data.program_date_time =
         IF LinesOf("PROGRAM-DATE-TIME") = <<>> THEN NULL
         ELSE input[LinesOf("PROGRAM-DATE-TIME")[1]].val
    /\ \A i \in 1..NumFinalized :
          data.segments[i].program_date_time =
              ProgramDateTimeBetween(PreviousFinalization(i), FinalizedAt(i))
    /\ pc = "scan" =>
          state.program_date_time =
              ProgramDateTimeBetween(PreviousFinalization(NumFinalized + 1),
                                     Len(input) + 1)

\* two lines with different values, then a segment: the document has the
\* first value, the segment the second, and nothing is staged
C27_Witness ==
    /\ Len(data.segments) = 1
    /\ NumFinalized = 1
    /\ data.program_date_time = "2024-01-01T00:00:00Z"
    /\ data.segments[1].program_date_time = "2026-01-01T00:00:00Z"
    /\ state.program_date_time = NULL

(***************************************************************************)
(* SpecPart: partial segments, the gap flag and dateranges they take, and  *)
(* the segments they end up in.                                            *)
(***************************************************************************)

MaxLinesPart == 5

PartLines ==
    <<Line("PART", <<Attr("uri", "\"p.ts\""), Attr("duration", "1")>>),
      Line("GAP", NULL),
      Line("DATERANGE", <<Attr("id", "\"d1\"")>>),
      Line("EXTINF", [duration |-> "4", title |-> NULL]),
      Line("URI", "full.ts")>>

LineOfPart == LineOf(PartLines, MaxLinesPart)

NextPart == LineOfPart \/ EndOfInput

SpecPart == Init /\ [][NextPart]_vars

\* this step is the iteration of the loop on a #EXT-X-PART line
PartStep ==
    /\ Len(input') = Len(input) + 1
    /\ input'[Len(input')].tag = "PART"

\* the parts of the in-progress segment, none if there is no such segment
PartsInProgress(s) ==
    IF s.current_segment = <<>> THEN <<>> ELSE s.current_segment[1].parts

\* the numbers of the PART lines strictly between lines p and q
PartLinesBetween(p, q) ==
    SelectSeq(LineNumbers, LAMBDA n : IsPartLine(input[n]) /\ p < n /\ n < q)

\* C28: #EXT-X-PART.  A PART line appends one Part at the end of the parts
\* of the in-progress segment, which it creates if there is none; the Part
\* has the pending gap flag as gap_tag and the whole pending list of
\* dateranges, and the line leaves the flag false and the list empty.  The
\* parts of a finalized segment are those of the PART lines before the URI
\* line that finalized it and after the previous finalization, in input
\* order; those of later PART lines are in the segment in progress.
C28_PartGoesToSegmentInProgress ==
    /\ [][PartStep =>
            LET old == PartsInProgress(state)
                new == PartsInProgress(state')
                part == new[Len(new)]
            IN /\ state'.current_segment # <<>>
               /\ state.current_segment # <<>> =>
                     state'.current_segment[1].h = state.current_segment[1].h
               /\ Len(new) = Len(old) + 1
               /\ SubSeq(new, 1, Len(old)) = old
               /\ part.h = Len(input')
               /\ part.uri = get_attr_str_unquoted(input'[Len(input')].val, "uri")
               /\ part.gap_tag = state.gap
               /\ part.dateranges = state.dateranges
               /\ ~state'.gap
               /\ state'.dateranges = <<>>
               /\ data' = data]_vars
    /\ [](/\ \A i \in 1..NumFinalized :
                Addresses(data.segments[i].parts) =
                    PartLinesBetween(PreviousFinalization(i), FinalizedAt(i))
          /\ pc = "scan" =>
                Addresses(PartsInProgress(state)) =
                    PartLinesBetween(PreviousFinalization(NumFinalized + 1),
                                     Len(input) + 1))

\* a part with the gap flag and a daterange went to the segment of the URI
\* line after it, and the part of a later line is in the next segment
C28_Witness ==
    /\ pc = "scan"
    /\ Len(data.segments) = 1
    /\ NumFinalized = 1
    /\ Len(data.segments[1].parts) = 1
    /\ data.segments[1].uri = "full.ts"
    /\ Len(PartsInProgress(state)) = 1
    /\ \/ data.segments[1].parts[1].gap_tag
       \/ Len(data.segments[1].parts[1].dateranges) = 1
    /\ ~state.gap
    /\ state.dateranges = <<>>

(***************************************************************************)
(* SpecIFrame: the two tags that carry their URI as an attribute, among    *)
(* the lines that stage a variant or a segment.                            *)
(***************************************************************************)

MaxLinesIFrame == 4

IFrameLines ==
    <<Line("STREAM-INF", <<Attr("bandwidth", "5000000")>>),
      Line("I-FRAME-STREAM-INF",
           <<Attr("bandwidth", "100"), Attr("uri", "\"i.m3u8\"")>>),
      Line("IMAGE-STREAM-INF",
           <<Attr("bandwidth", "50"), Attr("uri", "\"t.m3u8\"")>>),
      Line("EXTINF", [duration |-> "4", title |-> NULL]),
      Line("GAP", NULL),
      Line("URI", "hi.m3u8")>>

IFrameLine == LineOf(IFrameLines, MaxLinesIFrame)

NextIFrame == IFrameLine \/ EndOfInput

SpecIFrame == Init /\ [][NextIFrame]_vars

\* this step is the iteration of the loop on a line of that tag
StepOnTag(tag) ==
    /\ Len(input') = Len(input) + 1
    /\ input'[Len(input')].tag = tag

\* the list is the old one with one more record at its end, allocated on
\* this line, whose uri is the unquoted URI attribute of the line
OneMore(new, old) ==
    /\ Len(new) = Len(old) + 1
    /\ SubSeq(new, 1, Len(old)) = old
    /\ new[Len(new)].h = Len(input')
    /\ new[Len(new)].uri =
          get_attr_str_unquoted(input'[Len(input')].val, "uri")

IsUriAsAttributeLine(l) == l.tag \in {"I-FRAME-STREAM-INF", "IMAGE-STREAM-INF"}

\* C29: a #EXT-X-I-FRAME-STREAM-INF or #EXT-X-IMAGE-STREAM-INF line appends
\* exactly one record to its own list, with the uri of its URI attribute,
\* and changes nothing else: the parser state (expect_segment,
\* expect_playlist, the staged stream_info, the segment in progress, every
\* pending field) is as before, so that a URI line that follows a staged
\* #EXT-X-STREAM-INF and such lines still makes the Variant.
C29_UriAsAttributeLinesLeaveStateAlone ==
    /\ [][/\ StepOnTag("I-FRAME-STREAM-INF") =>
               /\ state' = state
               /\ OneMore(data'.iframe_playlists, data.iframe_playlists)
               /\ data' = [data EXCEPT
                              !.iframe_playlists = data'.iframe_playlists]
          /\ StepOnTag("IMAGE-STREAM-INF") =>
               /\ state' = state
               /\ OneMore(data'.image_playlists, data.image_playlists)
               /\ data' = [data EXCEPT
                              !.image_playlists = data'.image_playlists]]_vars
    /\ [](\A k \in 1..Len(input) :
            LET j == LastBefore(k, LAMBDA l : ~IsUriAsAttributeLine(l)) IN
            (/\ input[k].tag = "URI"
             /\ j # 0
             /\ j < k - 1
             /\ input[j].tag = "STREAM-INF"
             /\ input[k].path # "segment")
              => /\ input[k].path = "playlist"
                 /\ \E i \in 1..Len(data.playlists) :
                       /\ data.playlists[i].h = k
                       /\ data.playlists[i].uri = input[k].val
                       /\ data.playlists[i].bandwidth = 5000000)

\* a variant was staged, an I-frame and an image playlist were appended with
\* their unquoted URI attributes, and the URI line made the Variant
C29_Witness ==
    /\ Len(input) = 4
    /\ input[1].tag = "STREAM-INF"
    /\ Len(data.iframe_playlists) = 1
    /\ data.iframe_playlists[1].uri = "i.m3u8"
    /\ Len(data.image_playlists) = 1
    /\ data.image_playlists[1].uri = "t.m3u8"
    /\ Len(data.playlists) = 1
    /\ data.playlists[1].uri = "hi.m3u8"
    /\ data.playlists[1].h = 4
    /\ ~state.expect_playlist

(***************************************************************************)
(* SpecDispatch: lines of the tags whose names start alike, on bytes.      *)
(***************************************************************************)

MaxDispatchPieces == 3

DispatchPieces ==
    {"#EXT-X-DISCONTINUITY\n",
     "#EXT-X-DISCONTINUITY-SEQUENCE:5\n",
     "#EXT-X-DISCONTINUITY-SEQUENCE\n",
     "#EXT-X-CUE-OUT:DURATION=30\n",
     "#EXT-X-CUE-OUT-CONT:DURATION=30\n",
     "#EXT-X-PART:URI=\"p.ts\"\n",
     "#EXT-X-PART-INF:PART-TARGET=1\n",
     "#EXT-X-MEDIA:TYPE=AUDIO\n",
     "#EXT-X-MEDIA-SEQUENCE:7\n"}

DispatchContents ==
    {Buffer(t, "") : t \in Texts(DispatchPieces, MaxDispatchPieces)}

\* an iteration of the line loop on a '#' line, the handler's call of
\* parse_attributes included
TagLineBytes ==
    /\ InLoop
    /\ Kind(content, LineAt(content, cursor)) = "tag"
    /\ \E st \in {Iterate(content, Here)} : Become(st)
    /\ UNCHANGED <<pc, content, lex, heap>>

NextDispatch == Call \/ TagLineBytes \/ EndOfContent

SpecDispatch == InitBytes(DispatchContents) /\ [][NextDispatch]_vars

\* this step is the iteration on a line whose bytes start with the prefix
StepOnLine(prefix) ==
    /\ Len(input') = Len(input) + 1
    /\ starts_with(input'[Len(input')].raw, prefix)

\* the prefixes of the chain the line starts with
PrefixesOf(line) ==
    {TagTable[i].prefix : i \in {i \in 1..Len(TagTable) :
                                    starts_with(line, TagTable[i].prefix)}}

\* C30: dispatch.  An iteration on a tag line calls at most one handler (the
\* lines seen grow by one line with one tag name), and of two tests the line
\* passes the one for the longer tag names the handler.  A
\* #EXT-X-DISCONTINUITY-SEQUENCE line does not set the pending discontinuity
\* flag, a #EXT-X-CUE-OUT-CONT line sets neither cue_out_start nor
\* cue_out_explicitly_duration, a #EXT-X-PART-INF line creates no Part and
\* no segment in progress, a #EXT-X-MEDIA-SEQUENCE line creates no Media.
C30_LongerTagWins ==
    /\ [][/\ StepOnLine("#EXT-X-DISCONTINUITY-SEQUENCE") =>
               state'.discontinuity = state.discontinuity
          /\ StepOnLine("#EXT-X-CUE-OUT-CONT") =>
               /\ state'.cue_out_start = state.cue_out_start
               /\ state'.cue_out_explicitly_duration =
                     state.cue_out_explicitly_duration
               /\ state'.cue_out
          /\ StepOnLine("#EXT-X-PART-INF") =>
               /\ state'.current_segment = state.current_segment
               /\ data'.has_part_inf
          /\ StepOnLine("#EXT-X-MEDIA-SEQUENCE") =>
               /\ data'.media = data.media
               /\ data'.has_media_sequence]_vars
    /\ [](\A k \in 1..Len(input) :
            \A i \in 1..Len(TagTable) :
               input[k].tag = TagTable[i].name =>
                  /\ TagTable[i].prefix \in PrefixesOf(input[k].raw)
                  /\ \A p \in PrefixesOf(input[k].raw) :
                        Len(p) <= Len(TagTable[i].prefix))

\* three lines of the longer tags have been handled by their own handlers,
\* and none of the effects of the shorter tags is there
C30_Witness ==
    /\ pc = "done"
    /\ content.mem = "#EXT-X-DISCONTINUITY-SEQUENCE\n"
                       \o "#EXT-X-CUE-OUT-CONT:DURATION=30\n"
                       \o "#EXT-X-PART-INF:PART-TARGET=1\n"
    /\ Len(input) = 3
    /\ ~state.discontinuity
    /\ state.cue_out
    /\ ~state.cue_out_start
    /\ ~state.cue_out_explicitly_duration
    /\ state.current_cue_out_duration = "30"
    /\ data.has_part_inf
    /\ data.segments = <<>>

(***************************************************************************)
(* SpecTokens: one KEY line whose attribute list is a comma-separated      *)
(* list of tokens; with each token, the pair the lexer is to yield for it. *)
(***************************************************************************)

MaxAttrTokens == 3

Token(text, pairs) == [text |-> text, pairs |-> pairs]

AttrTokens ==
    <<Token("URI=\"u1\"", <<Attr("uri", "\"u1\"")>>),
      Token(" uri\t= u2 ", <<Attr("uri", "u2")>>),
      Token(" 30 ", <<Attr("", "30")>>),
      Token("Key-Format=k=f", <<Attr("key_format", "k=f")>>),
      Token(" ", <<>>)>>

\* the sequences of at most n numbers of tokens
RECURSIVE TokenSeqs(_)
TokenSeqs(n) ==
    IF n = 0 THEN {<<>>}
    ELSE {<<>>} \cup {<<i>> \o ts : i \in 1..Len(AttrTokens),
                                     ts \in TokenSeqs(n - 1)}

\* the tokens of those numbers with a comma between two of them
RECURSIVE JoinTokens(_)
JoinTokens(ts) ==
    IF ts = <<>> THEN ""
    ELSE AttrTokens[Head(ts)].text
           \o (IF Len(ts) > 1 THEN "," \o JoinTokens(Tail(ts)) ELSE "")

\* the pairs of those tokens, in their order
RECURSIVE PairsOf(_)
PairsOf(ts) ==
    IF ts = <<>> THEN <<>>
    ELSE AttrTokens[Head(ts)].pairs \o PairsOf(Tail(ts))

TokenContents ==
    {Buffer("#EXT-X-KEY:" \o JoinTokens(ts), "") : ts \in TokenSeqs(MaxAttrTokens)}

NextTokens == Call \/ AttrTagLine \/ LexStep \/ LexReturn \/ EndOfContent

SpecTokens == InitBytes(TokenContents) /\ [][NextTokens]_vars

\* the value of the first pair with that key, NULL if there is none
FirstValue(pairs, key) ==
    IF \E i \in 1..Len(pairs) : pairs[i].key = key
    THEN pairs[CHOOSE i \in 1..Len(pairs) :
                  /\ pairs[i].key = key
                  /\ \A j \in 1..(i - 1) : pairs[j].key # key].value
    ELSE NULL

\* C31: attribute lexer.  For a body made of comma-separated tokens the
\* lexer yields the pairs of the tokens, one for each token that is not
\* blank, in input order: key "" and the trimmed token for a token without
\* '=', else the key lower-cased with '-' as '_' and without the blanks
\* around it and the value with its quotes; pairs of equal keys are all
\* there, and the lookup by key gives the value of the first of them (the
\* uri of the Key is that of the first URI attribute).
C31_LexerYieldsPairsInOrder ==
    \A k \in 1..Len(input) :
       \A ts \in TokenSeqs(MaxAttrTokens) :
          content.mem = "#EXT-X-KEY:" \o JoinTokens(ts) =>
             /\ input[k].val = PairsOf(ts)
             /\ \A key \in {"uri", "", "key_format", "method"} :
                   get_attr(input[k].val, key) = FirstValue(PairsOf(ts), key)
             /\ data.keys[k].uri =
                   IF FirstValue(PairsOf(ts), "uri") = NULL THEN NULL
                   ELSE StripPair(FirstValue(PairsOf(ts), "uri"))

\* two URI attributes, a bare value between them: three pairs in input
\* order, and the Key has the uri of the first
C31_Witness ==
    /\ pc = "done"
    /\ content.mem = "#EXT-X-KEY: uri\t= u2 , 30 ,URI=\"u1\""
    /\ input[1].val = <<Attr("uri", "u2"), Attr("", "30"), Attr("uri", "\"u1\"")>>
    /\ data.keys[1].uri = "u2"

(***************************************************************************)
(* SpecQuoted: one KEY line whose attributes have quoted values with       *)
(* commas and quote characters inside, closed or not.                      *)
(***************************************************************************)

MaxQuotedTokens == 3

\* open: the value starts with a quote character that the token does not
\* close
QuotedTokens ==
    <<[text |-> "URI=\"a,'b\"", key |-> "uri", value |-> "\"a,'b\"", open |-> FALSE],
      [text |-> "iv='c,\"d'", key |-> "iv", value |-> "'c,\"d'", open |-> FALSE],
      [text |-> "METHOD=NONE", key |-> "method", value |-> "NONE", open |-> FALSE],
      [text |-> "keyformat=\"e", key |-> "keyformat", value |-> "\"e", open |-> TRUE],
      [text |-> "x='", key |-> "x", value |-> "'", open |-> TRUE]>>

RECURSIVE QuotedSeqs(_)
QuotedSeqs(n) ==
    IF n = 0 THEN {<<>>}
    ELSE {<<>>} \cup {<<i>> \o ts : i \in 1..Len(QuotedTokens),
                                     ts \in QuotedSeqs(n - 1)}

RECURSIVE JoinQuoted(_)
JoinQuoted(ts) ==
    IF ts = <<>> THEN ""
    ELSE QuotedTokens[Head(ts)].text
           \o (IF Len(ts) > 1 THEN "," \o JoinQuoted(Tail(ts)) ELSE "")

\* the pairs to expect: a value that is closed ends at its quote and the
\* next token is an attribute; a value that is not closed is the rest of
\* the line and is the last pair
RECURSIVE ExpectQuoted(_)
ExpectQuoted(ts) ==
    IF ts = <<>> THEN <<>>
    ELSE LET t == QuotedTokens[Head(ts)] IN
         IF ~t.open
         THEN <<Attr(t.key, t.value)>> \o ExpectQuoted(Tail(ts))
         ELSE <<Attr(t.key,
                     t.value \o (IF Len(ts) > 1
                                 THEN "," \o JoinQuoted(Tail(ts)) ELSE ""))>>

\* the value runs to the end of the line: nothing of its kind of quote is
\* in the tokens behind it
RunsToEnd(ts) ==
    \A i \in 1..Len(ts) :
       QuotedTokens[ts[i]].open =>
          LET q == SubSeq(QuotedTokens[ts[i]].value, 1, 1) IN
          \A j \in (i + 1)..Len(ts) :
             FindChar(QuotedTokens[ts[j]].text, 0,
                      Len(QuotedTokens[ts[j]].text), q)
               = Len(QuotedTokens[ts[j]].text)

QuotedContents ==
    {Buffer("#EXT-X-KEY:" \o JoinQuoted(ts), "") : ts \in QuotedSeqs(MaxQuotedTokens)}

NextQuoted == Call \/ AttrTagLine \/ LexStep \/ LexReturn \/ EndOfContent

SpecQuoted == InitBytes(QuotedContents) /\ [][NextQuoted]_vars

\* C32: quoted attribute values.  A keyed value that starts with " or '
\* ends at the next quote character of the same kind: the commas and the
\* quote characters of the other kind inside it separate nothing, and the
\* attribute behind it is lexed.  A value whose closing quote is missing
\* is the rest of the line, no attribute comes after it, and the parse
\* returns a document all the same.
C32_QuotedValueEndsAtItsQuote ==
    /\ pc # "null"
    /\ \A k \in 1..Len(input) :
          \A ts \in QuotedSeqs(MaxQuotedTokens) :
             (content.mem = "#EXT-X-KEY:" \o JoinQuoted(ts) /\ RunsToEnd(ts))
                => input[k].val = ExpectQuoted(ts)

\* a value with a comma and a single quote inside, the attribute behind it,
\* and a value that is not closed, which takes the rest of the line
C32_Witness ==
    /\ pc = "done"
    /\ content.mem = "#EXT-X-KEY:URI=\"a,'b\",keyformat=\"e,METHOD=NONE"
    /\ input[1].val = <<Attr("uri", "\"a,'b\""),
                        Attr("keyformat", "\"e,METHOD=NONE")>>
    /\ data.keys[1].uri = "a,'b"
    /\ data.keys[1].method = NULL

\* C33: daterange order.  When several #EXT-X-DATERANGE lines precede the
\* same consumer, the dateranges list of the segment or part that takes them
\* holds the DateRanges in the order of their lines in the input.
C33_DateRangesInInputOrder ==
    \A l \in DateRangeLists :
       \A i, j \in 1..Len(l.list) : i < j => l.list[i].h < l.list[j].h

(***************************************************************************)
(* SpecOatcls: the lines that stage a SCTE-35 payload, and segments.       *)
(***************************************************************************)

MaxLinesOatcls == 4

OatclsLines ==
    <<Line("OATCLS-SCTE35", "oat1"),
      Line("OATCLS-SCTE35", "oat2"),
      Line("OATCLS-SCTE35", ""),
      Line("CUE-OUT", [explicit |-> FALSE,
                       attrs |-> <<Attr("", "30"), Attr("cue", "\"c1\"")>>]),
      Line("CUE-OUT-CONT", <<Attr("", "10/30"), Attr("scte35", "\"c2\"")>>),
      Line("EXTINF", [duration |-> "4", title |-> NULL]),
      Line("URI", "a.ts")>>

LineOfOatcls == LineOf(OatclsLines, MaxLinesOatcls)

NextOatcls == LineOfOatcls \/ EndOfInput

SpecOatcls == Init /\ [][NextOatcls]_vars

\* C34: a #EXT-OATCLS-SCTE35 line replaces the pending oatcls_scte35 with
\* its payload whatever was pending, makes the payload the pending scte35
\* only when none is pending, leaves a pending scte35 (of a CUE attribute,
\* of a SCTE35 attribute of CUE-OUT-CONT, of an earlier OATCLS line) as it
\* is, and changes nothing else.
C34_OatclsKeepsPendingScte35 ==
    [][StepOnTag("OATCLS-SCTE35") =>
         LET payload == input'[Len(input')].val IN
         /\ state' = [state EXCEPT
                        !.current_cue_out_oatcls_scte35 = payload,
                        !.current_cue_out_scte35 =
                            IF state.current_cue_out_scte35 = NULL
                            THEN payload ELSE state.current_cue_out_scte35]
         /\ data' = data]_vars

\* the scte35 of a CUE attribute is pending with the payload of a later
\* OATCLS line, which replaced that of an earlier one
C34_Witness ==
    /\ Len(input) = 3
    /\ input[1].tag = "CUE-OUT"
    /\ input[2].tag = "OATCLS-SCTE35"
    /\ input[3].tag = "OATCLS-SCTE35"
    /\ state.current_cue_out_oatcls_scte35 = "oat2"
    /\ state.current_cue_out_scte35 = "c1"

(***************************************************************************)
(* SpecCueOut: #EXT-X-CUE-OUT lines on bytes, with the word DURATION in    *)
(* several letter cases and without it, and segments.                      *)
(***************************************************************************)

MaxCueOutPieces == 3

CueOutPieces ==
    {"#EXT-X-CUE-OUT:DURATION=30\n",
     "#EXT-X-CUE-OUT:duration=30\n",
     "#EXT-X-CUE-OUT:Duration=30\n",
     "#EXT-X-CUE-OUT:30\n",
     "#EXT-X-CUE-OUT\n",
     "#EXTINF:4,\n",
     "a.ts\n"}

CueOutContents ==
    {Buffer(t, "") : t \in Texts(CueOutPieces, MaxCueOutPieces)}

NextCueOut == Call \/ TagLineBytes \/ UriLineBytes \/ EndOfContent

SpecCueOut == InitBytes(CueOutContents) /\ [][NextCueOut]_vars

\* the text holds the word DURATION in some letter case
HasDurationWord(text) ==
    \E i \in 0..(Len(text) - 8) : LowerCase(Mid(text, i, i + 8)) = "duration"

\* C35: a #EXT-X-CUE-OUT line sets cue_out_explicitly_duration exactly when
\* its body holds the word DURATION in any letter case (DURATION, duration,
\* Duration); a bare number as in #EXT-X-CUE-OUT:30 stages the duration and
\* does not set the flag.
C35_ExplicitDurationInAnyCase ==
    [][StepOnLine("#EXT-X-CUE-OUT") =>
         LET line == input'[Len(input')].raw IN
         /\ state'.cue_out_explicitly_duration =
               IF HasDurationWord(Mid(line, 15, Len(line))) THEN TRUE
               ELSE state.cue_out_explicitly_duration
         /\ line = "#EXT-X-CUE-OUT:30" =>
               state'.current_cue_out_duration = "30"]_vars

(***************************************************************************)
(* SpecCont: #EXT-X-CUE-OUT-CONT lines with a bare value, with keyed       *)
(* attributes, with both and with neither, after lines that stage values.  *)
(***************************************************************************)

MaxLinesCont == 4

\* the attribute lists of the CUE-OUT-CONT lines and, with each, what the
\* line gives for the three pending fields (NULL: the line gives no value)
ContCases ==
    <<[attrs |-> <<Attr("", "10/30")>>,
       elapsedtime |-> "10", duration |-> "30", scte35 |-> NULL],
      [attrs |-> <<Attr("", "5/6/7")>>,
       elapsedtime |-> "5", duration |-> "6/7", scte35 |-> NULL],
      [attrs |-> <<Attr("duration", "\"40\""), Attr("scte35", "'c2'"),
                   Attr("elapsedtime", "12")>>,
       elapsedtime |-> "12", duration |-> "40", scte35 |-> "c2"],
      [attrs |-> <<Attr("", "10/30"), Attr("duration", "50")>>,
       elapsedtime |-> "10", duration |-> "50", scte35 |-> NULL],
      [attrs |-> <<>>,
       elapsedtime |-> NULL, duration |-> NULL, scte35 |-> NULL]>>

ContLines ==
    [i \in 1..Len(ContCases) |-> Line("CUE-OUT-CONT", ContCases[i].attrs)]
      \o <<Line("OATCLS-SCTE35", "oat1"),
           Line("CUE-OUT", [explicit |-> FALSE, attrs |-> <<Attr("", "20")>>]),
           Line("EXTINF", [duration |-> "4", title |-> NULL]),
           Line("URI", "a.ts")>>

LineOfCont == LineOf(ContLines, MaxLinesCont)

NextCont == LineOfCont \/ EndOfInput

SpecCont == Init /\ [][NextCont]_vars

\* the value the line gives, what was pending if it gives none
GivenOr(given, pending) == IF given = NULL THEN pending ELSE given

\* C36: a #EXT-X-CUE-OUT-CONT line sets cue_out.  A bare value
\* elapsed/total makes the part before the first '/' the pending
\* elapsedtime and the part after it the pending duration; the keyed
\* DURATION, SCTE35 and ELAPSEDTIME attributes, without their quotes, go
\* over that; a pending field the line gives no value for keeps what the
\* earlier lines staged, and nothing else changes.
C36_CueOutContStages ==
    [][StepOnTag("CUE-OUT-CONT") =>
         \A i \in 1..Len(ContCases) :
            input'[Len(input')].val = ContCases[i].attrs =>
               /\ state' = [state EXCEPT
                    !.cue_out = TRUE,
                    !.current_cue_out_elapsedtime =
                        GivenOr(ContCases[i].elapsedtime, @),
                    !.current_cue_out_duration =
                        GivenOr(ContCases[i].duration, @),
                    !.current_cue_out_scte35 = GivenOr(ContCases[i].scte35, @)]
               /\ data' = data]_vars

\* after an OATCLS line and a CUE-OUT line, a line with a bare value and a
\* keyed DURATION: the keyed duration, the elapsed time of the bare value,
\* and the scte35 staged before
C36_Witness ==
    /\ Len(input) = 3
    /\ input[3].tag = "CUE-OUT-CONT"
    /\ input[3].val = <<Attr("", "10/30"), Attr("duration", "50")>>
    /\ state.cue_out
    /\ state.current_cue_out_elapsedtime = "10"
    /\ state.current_cue_out_duration = "50"
    /\ state.current_cue_out_scte35 = "oat1"
    /\ state.current_cue_out_oatcls_scte35 = "oat1"

(***************************************************************************)
(* SpecExtinf: #EXTINF lines on bytes, with and without a title, one or    *)
(* more of them before a URI line.                                         *)
(***************************************************************************)

MaxExtinfPieces == 3

\* the #EXTINF lines and, with each, the duration and the title of its body
ExtinfCases ==
    <<[text |-> "#EXTINF:5,First", duration |-> 5, title |-> "First"],
      [text |-> "#EXTINF:7", duration |-> 7, title |-> NULL],
      [text |-> "#EXTINF:8,", duration |-> 8, title |-> NULL],
      [text |-> "#EXTINF:9, \ta, b", duration |-> 9, title |-> "a, b"]>>

ExtinfPieces ==
    {ExtinfCases[i].text \o "\n" : i \in 1..Len(ExtinfCases)} \cup {"a.ts\n"}

ExtinfContents ==
    {Buffer(t, "") : t \in Texts(ExtinfPieces, MaxExtinfPieces)}

NextExtinf == Call \/ TagLineBytes \/ UriLineBytes \/ EndOfContent

SpecExtinf == InitBytes(ExtinfContents) /\ [][NextExtinf]_vars

IsExtinfLine(l) == l.tag = "EXTINF"

\* C37: #EXTINF.  The duration and the title of a finalized segment are
\* those of the last #EXTINF line before its URI line: the leading number of
\* the body, and the text behind the first comma without its leading
\* blanks, later commas included; the title is null when that text is empty
\* or the line has no comma, also when an earlier #EXTINF line of the same
\* segment had a title.
C37_LastExtinfGivesDurationAndTitle ==
    \A i \in 1..NumFinalized :
       LET e == LastBefore(FinalizedAt(i), IsExtinfLine) IN
       e > PreviousFinalization(i) =>
          \A c \in 1..Len(ExtinfCases) :
             input[e].raw = ExtinfCases[c].text =>
                /\ data.segments[i].duration = ExtinfCases[c].duration
                /\ data.segments[i].title = ExtinfCases[c].title

(***************************************************************************)
(* SpecVariant: #EXT-X-STREAM-INF and #EXT-X-MEDIA-SEQUENCE lines on       *)
(* bytes, in every order.                                                  *)
(***************************************************************************)

MaxVariantPieces == 4

VariantPieces ==
    {"#EXT-X-STREAM-INF:BANDWIDTH=1\n",
     "#EXT-X-MEDIA-SEQUENCE:7\n",
     "#EXTINF:4,\n",
     "hi.m3u8\n"}

VariantContents ==
    {Buffer(t, "") : t \in Texts(VariantPieces, MaxVariantPieces)}

NextVariant == Call \/ TagLineBytes \/ UriLineBytes \/ EndOfContent

SpecVariant == InitBytes(VariantContents) /\ [][NextVariant]_vars

\* C38: the media sequence is absent for variant playlists.  In every
\* returned document is_variant = 1 implies has_media_sequence = 0, whatever
\* the order of the #EXT-X-STREAM-INF and #EXT-X-MEDIA-SEQUENCE lines.
C38_VariantHasNoMediaSequence ==
    pc = "done" => (data.is_variant => ~data.has_media_sequence)

(***************************************************************************)
(* Record counting: which lines make the segments list and the             *)
(* variant-playlists list grow, and by how much.                           *)
(***************************************************************************)

\* the records of the two lists that URI lines and the end of input fill
NumRecords(d) == Len(d.segments) + Len(d.playlists)

\* the step consumes a '#' line
TagStep ==
    /\ Len(input') = Len(input) + 1
    /\ input'[Len(input')].tag # "URI"

\* C39: a tag line never appends to the segments list or to the
\* variant-playlists list; a URI line appends at most one record in total,
\* a Segment or a Variant and never both; hence while lines are processed
\* the two lists hold at most as many records as URI lines were processed,
\* and at return at most one more (the in-progress segment appended at the
\* end of the input).
C39_RecordsCountedByUriLines ==
    /\ [][TagStep => (/\ data'.segments = data.segments
                      /\ data'.playlists = data.playlists)]_vars
    /\ [][UriStep =>
            (/\ NumRecords(data') <= NumRecords(data) + 1
             /\ \/ data'.segments = data.segments
                \/ data'.playlists = data.playlists
             /\ SubSeq(data'.segments, 1, Len(data.segments)) = data.segments
             /\ SubSeq(data'.playlists, 1, Len(data.playlists))
                   = data.playlists)]_vars
    /\ [](pc = "scan" => NumRecords(data) <= Len(LinesOf("URI")))
    /\ [](pc = "done" => NumRecords(data) <= Len(LinesOf("URI")) + 1)

\* the one URI line of the input made a Variant, a later tag line started a
\* segment, and the end of the input appended it: two records for one URI
\* line
C39_Witness ==
    /\ pc = "done"
    /\ Len(LinesOf("URI")) = 1
    /\ Len(data.playlists) = 1
    /\ Len(data.segments) = 1
    /\ data.segments[1].uri = NULL
    /\ data.playlists[1].h < data.segments[1].h

====
